---- MODULE Spec2Model ----
(***************************************************************************)
(* The machine-lifecycle engine of the KubeVirt provider (PluginSPIImpl):  *)
(* CreateMachine, DeleteMachine, GetMachineStatus, ListMachines and        *)
(* ShutDownMachine, run by concurrent workers against one remote control   *)
(* plane that holds VirtualMachine and Secret objects.  Every remote call  *)
(* of a handler is one step, so that calls of different workers and the    *)
(* writes of other actors interleave between a handler's read and write.   *)
(***************************************************************************)
EXTENDS Integers, Sequences, FiniteSets, TLC

\* core.go:44
ProviderName == "kubevirt"

\* Steps of retry.DefaultBackoff, the policy passed to retry.RetryOnConflict
BackoffSteps == 4

\* Bounds of the model
MaxRev == 2
MaxTime == 1

\* One worker runs the handlers one call after the other; two workers race
Workers == {"w1"}
RaceWorkers == {"w1", "w2"}
MachineNames == {"m1", "m2"}
Namespaces == {"default", "other"}
\* The namespace of the current context of the credentials' kubeconfig
CredentialNamespaces == {"default"}

EmptyMap == [k \in {} |-> ""]
TagMaps == {EmptyMap, [k \in {"role"} |-> "node"]}

\* The inputs of the racing workers
RaceNames == {"m1"}
RaceTagMaps == {EmptyMap}

\* The network descriptors of a provider spec: lists of at most MaxNetworks
\* api.NetworkSpec values
MaxNetworks == 2
NetworkSpecs ==
    {[name |-> "blue", default |-> FALSE], [name |-> "ns/red", default |-> FALSE],
     [name |-> "ns/red", default |-> TRUE]}
NetworkSpecLists ==
    UNION {[1..n -> NetworkSpecs] : n \in 0..MaxNetworks}
\* A provider spec without networks
NoNetworks == {<<>>}

\* The failure domain of a provider spec: "" is no region or zone, "default"
\* the nodes without a region or zone label
Regions == {"", "default", "eu"}
Zones == {"", "default", "z1"}

\* The version a control plane reports: its text, character by character, and
\* the major and minor release the text stands for
ServerVersions ==
    {[text |-> <<"v", "1", ".", "9", ".", "3">>, major |-> 1, minor |-> 9],
     [text |-> <<"v", "1", ".", "1", "6", ".", "8">>, major |-> 1, minor |-> 16],
     [text |-> <<"1", ".", "1", "6", ".", "1", "5", "-", "g", "k", "e", ".", "1", "0", "0">>,
      major |-> 1, minor |-> 16],
     [text |-> <<"v", "1", ".", "1", "7", ".", "0">>, major |-> 1, minor |-> 17],
     [text |-> <<"v", "1", ".", "1", "7", ".", "0", "-", "r", "c", ".", "1">>,
      major |-> 1, minor |-> 17],
     [text |-> <<"v", "1", ".", "1", "8", ".", "2", "+", "k", "3", "s", "1">>,
      major |-> 1, minor |-> 18],
     [text |-> <<"v", "2", ".", "0", ".", "0">>, major |-> 2, minor |-> 0]}
DefaultVersions == {[text |-> <<"v", "1", ".", "1", "8", ".", "0">>, major |-> 1, minor |-> 18]}

\* The user data of the credentials secret and the SSH keys of a provider
\* spec, as sequences of tokens
MaxKeys == 2
UserDatas ==
    {<<"#cloud-config", "\n", "user: test">>,
     <<"#cloud-config", "\n", "ssh_authorized_keys:", "\n", "- ", "ssh-rsa A">>,
     <<"#cloud-config", "\n", "# no ", "ssh_authorized_keys:", " yet">>}
DefaultUserDatas == {<<"#cloud-config">>}
SSHKeys == {<<"ssh-rsa B">>, <<" ", "ssh-rsa C", "\n">>}
SSHKeyLists == UNION {[1..n -> SSHKeys] : n \in 0..MaxKeys}

\* cdicorev1alpha1.DataVolumeSpec: whether it has a PVC, and the PVC's storage request
RootVolume == [pvc |-> TRUE, storage |-> 10]

\* api.AdditionalVolumeSpec: a nil DataVolume or VolumeSource is the empty sequence
MaxVolumes == 2
AdditionalVolumeSpecs ==
    {[name |-> "data", dataVolume |-> <<[pvc |-> TRUE, storage |-> 5]>>, volumeSource |-> <<>>],
     [name |-> "conf", dataVolume |-> <<>>,
      volumeSource |-> <<[kind |-> "configMap", ref |-> "cm1"]>>],
     [name |-> "both", dataVolume |-> <<[pvc |-> TRUE, storage |-> 5]>>,
      volumeSource |-> <<[kind |-> "persistentVolumeClaim", ref |-> "pvc1"]>>],
     [name |-> "none", dataVolume |-> <<>>, volumeSource |-> <<>>]}
AdditionalVolumeLists ==
    UNION {[1..n -> AdditionalVolumeSpecs] : n \in 0..MaxVolumes}
\* Additional volumes that are fresh data volumes
DataVolumeLists ==
    UNION {[1..n -> {v \in AdditionalVolumeSpecs : v.name = "data"}] : n \in 0..MaxVolumes}
\* spec.Devices.Disks
ConfiguredDiskLists == {<<>>, <<[name |-> "data", bus |-> "scsi"]>>}

\* Machine names one of which is another followed by a volume index
TemplateNames == {"m1", "m1-0"}

\* api.KubeVirtProviderSpec
DefaultProviderSpec ==
    [region |-> "eu", zone |-> "z1", tags |-> EmptyMap, networks |-> <<>>, sshKeys |-> <<>>,
     rootVolume |-> RootVolume, additionalVolumes |-> <<>>, disks |-> <<>>]
TaggedSpecs(tagMaps) == {[DefaultProviderSpec EXCEPT !.tags = t] : t \in tagMaps}
NetworkedSpecs == {[DefaultProviderSpec EXCEPT !.networks = n] : n \in NetworkSpecLists}
PlacedSpecs ==
    {[DefaultProviderSpec EXCEPT !.region = r, !.zone = z] : r \in Regions, z \in Zones}
KeyedSpecs == {[DefaultProviderSpec EXCEPT !.sshKeys = k] : k \in SSHKeyLists}
VolumeSpecs ==
    {[DefaultProviderSpec EXCEPT !.additionalVolumes = a, !.disks = d] :
        a \in AdditionalVolumeLists, d \in ConfiguredDiskLists}
DataVolumeSpecs == {[DefaultProviderSpec EXCEPT !.additionalVolumes = a] : a \in DataVolumeLists}

VMLabelKey == "kubevirt.io/vm"

VARIABLES
    vms,        \* VirtualMachine objects held by the remote control plane
    secrets,    \* Secret objects held by the remote control plane
    rev,        \* revision counter of the remote store (resource versions, UIDs)
    now,        \* the clock, in seconds (time.Now().Unix())
    dataVolumes, \* DataVolume objects held by the remote control plane
    workers,    \* per worker: the call it runs, its position and its locals
    created,    \* history: machine -> provider ID and tags of the last successful CreateMachine, reset once a DeleteMachine starts
    deleted     \* history: machine -> a DeleteMachine succeeded and no CreateMachine started since

vars == <<vms, secrets, dataVolumes, rev, now, workers, created, deleted>>

-----------------------------------------------------------------------------
(* Values *)

\* A nil slice is the empty sequence
NoVM == [ns |-> "", name |-> "", uid |-> 0, rv |-> 0, running |-> FALSE,
         labels |-> EmptyMap, userDataSecretRef |-> "",
         interfaces |-> <<>>, networks |-> <<>>, networkData |-> "",
         affinity |-> <<>>, disks |-> <<>>, volumes |-> <<>>, dataVolumeTemplates |-> <<>>]

NoSecret == [ns |-> "", name |-> "", ownerUID |-> 0, ownerName |-> "", controller |-> FALSE,
             userData |-> <<>>]

NoErr == [kind |-> "nil", name |-> "", namespace |-> "", msg |-> "", cause |-> ""]

\* errors/custom_errors.go: the typed not-found error carrying the machine name
MachineNotFoundError(machineName) ==
    [kind |-> "MachineNotFound", name |-> machineName, namespace |-> "", msg |-> "",
     cause |-> ""]

\* fmt.Errorf("<msg>: %v", err): an opaque error wrapping its cause
Errorf(msg, cause) ==
    [kind |-> "opaque", name |-> "", namespace |-> "", msg |-> msg, cause |-> cause]

IsMachineNotFoundError(err) == err.kind = "MachineNotFound"

\* err.Error(): the message of an error
ErrorText(err) ==
    IF err.kind = "MachineNotFound"
    THEN "machine name=" \o err.name \o ", uuid= not found"
    ELSE err.msg \o ": " \o err.cause

\* The status the machine server answers a request with
NoStatus == [code |-> "none", message |-> ""]
StatusOK == [code |-> "OK", message |-> ""]

\* Variant: every error of the engine is answered as an internal failure
PrepareErrorf_AllInternal(err, message) ==
    [code |-> "Internal", message |-> message \o ": " \o ErrorText(err)]

\* util.PrepareErrorf: status.Error(code, wrapped.Error())
PrepareErrorf(err, message) ==
    IF err.kind = "MachineNotFound"
    THEN [code |-> "NotFound", message |-> ErrorText(err)]
    ELSE [code |-> "Internal", message |-> message \o ": " \o ErrorText(err)]

\* The format and arguments the machine server passes to PrepareErrorf (%q quotes the name)
FailureMessage(op, machineName) ==
    IF op \in {"Create", "Delete"} THEN "Create machine \"" \o machineName \o "\" failed"
    ELSE IF op = "Status" THEN "Machine status \"" \o machineName \o "\" failed"
    ELSE "List machines failed"

\* MachinePlugin.<op> after the call of p.SPI.<op>; the machine server has no
\* handler that calls ShutDownMachine
MachinePlugin_respond(op, machineName, err) ==
    IF op = "ShutDown" THEN NoStatus
    ELSE IF err = NoErr THEN StatusOK
    ELSE PrepareErrorf(err, FailureMessage(op, machineName))

SetKey(m, k, v) == [x \in DOMAIN m \cup {k} |-> IF x = k THEN v ELSE m[x]]

\* Variant: the scheme prefix is left out
encodeProviderID_Bare(machineName) == machineName

\* fmt.Sprintf("%s://%s", ProviderName, machineName), "" for the empty name
encodeProviderID(machineName) ==
    IF machineName = "" THEN "" ELSE ProviderName \o "://" \o machineName

\* kubevirtv1.Interface with the bridge binding method
Interface(name) == [name |-> name, binding |-> "bridge"]

\* kubevirtv1.Network with the pod network as its source
PodNetwork(name) == [name |-> name, source |-> "pod", networkName |-> "", default |-> FALSE]

\* kubevirtv1.Network with a multus network as its source
MultusNetwork(name, networkSpec) ==
    [name |-> name, source |-> "multus", networkName |-> networkSpec.name,
     default |-> networkSpec.default]

\* The cloud-init network-config enabling DHCP for all ethernet interfaces
DHCPNetworkData ==
    "version: 2\nethernets:\n  id0:\n    match:\n      name: \"e*\"\n    dhcp4: true\n"

\* Variant: the pod network is added whether or not a default network is given
buildNetworks_AlwaysPod(networkSpecs) ==
    IF Len(networkSpecs) = 0
    THEN [interfaces |-> <<>>, networks |-> <<>>, networkData |-> ""]
    ELSE [interfaces |-> <<Interface("default")>> \o
                         [i \in 1..Len(networkSpecs) |-> Interface("net" \o ToString(i - 1))],
          networks |-> <<PodNetwork("default")>> \o
                       [i \in 1..Len(networkSpecs) |->
                            MultusNetwork("net" \o ToString(i - 1), networkSpecs[i])],
          networkData |-> DHCPNetworkData]

\* Variant: the network-config fragment is emitted for every spec
buildNetworks_AlwaysData(networkSpecs) ==
    LET hasDefault == \E i \in 1..Len(networkSpecs) : networkSpecs[i].default
    IN  [interfaces |-> (IF hasDefault \/ Len(networkSpecs) = 0
                         THEN <<>> ELSE <<Interface("default")>>) \o
                        [i \in 1..Len(networkSpecs) |-> Interface("net" \o ToString(i - 1))],
         networks |-> (IF hasDefault \/ Len(networkSpecs) = 0
                       THEN <<>> ELSE <<PodNetwork("default")>>) \o
                      [i \in 1..Len(networkSpecs) |->
                           MultusNetwork("net" \o ToString(i - 1), networkSpecs[i])],
         networkData |-> DHCPNetworkData]

\* Variant: the descriptors are numbered by a counter that the pod network
\* pair advances
buildNetworks_Counted(networkSpecs) ==
    IF Len(networkSpecs) = 0
    THEN [interfaces |-> <<>>, networks |-> <<>>, networkData |-> ""]
    ELSE LET hasDefault == \E i \in 1..Len(networkSpecs) : networkSpecs[i].default
             count == IF hasDefault THEN 0 ELSE 1
         IN  [interfaces |-> (IF hasDefault THEN <<>> ELSE <<Interface("default")>>) \o
                             [i \in 1..Len(networkSpecs) |->
                                  Interface("net" \o ToString(count + i - 1))],
              networks |-> (IF hasDefault THEN <<>> ELSE <<PodNetwork("default")>>) \o
                           [i \in 1..Len(networkSpecs) |->
                                MultusNetwork("net" \o ToString(count + i - 1), networkSpecs[i])],
              networkData |-> DHCPNetworkData]

\* buildNetworks: the interfaces, the networks and the network data of a VM;
\* the i-th descriptor (counted from 0) is named net<i>
buildNetworks(networkSpecs) ==
    IF Len(networkSpecs) = 0
    THEN [interfaces |-> <<>>, networks |-> <<>>, networkData |-> ""]
    ELSE LET hasDefault == \E i \in 1..Len(networkSpecs) : networkSpecs[i].default
         IN  [interfaces |-> (IF hasDefault THEN <<>> ELSE <<Interface("default")>>) \o
                             [i \in 1..Len(networkSpecs) |-> Interface("net" \o ToString(i - 1))],
              networks |-> (IF hasDefault THEN <<>> ELSE <<PodNetwork("default")>>) \o
                           [i \in 1..Len(networkSpecs) |->
                                MultusNetwork("net" \o ToString(i - 1), networkSpecs[i])],
              networkData |-> DHCPNetworkData]

\* api.RootDiskName
RootDiskName == "rootdisk"

\* kubevirtv1.Disk with a disk target on the given bus
Disk(name, bus) == [name |-> name, bus |-> bus]

\* buildDefaultDisk: a virtio disk of the given name
buildDefaultDisk(name) == Disk(name, "virtio")

\* findDiskByName: the first configured disk of the name; nil is the empty sequence
findDiskByName(name, disks) ==
    LET found == {i \in 1..Len(disks) : disks[i].name = name}
    IN  IF found = {} THEN <<>>
        ELSE <<disks[CHOOSE i \in found : \A j \in found : i <= j]>>

\* kubevirtv1.Volume whose source is a data volume
DataVolumeVolume(name, dataVolumeName) ==
    [name |-> name, source |-> "dataVolume", ref |-> dataVolumeName,
     userDataSecretRef |-> "", networkData |-> ""]

\* kubevirtv1.Volume whose source is a NoCloud cloud-init source
CloudInitVolume(name, secretName, networkData) ==
    [name |-> name, source |-> "cloudInitNoCloud", ref |-> "",
     userDataSecretRef |-> secretName, networkData |-> networkData]

\* kubevirtv1.Volume wrapping the persistent volume claim, config map or
\* secret that an api.VolumeSource references
SourceVolume(name, volumeSource) ==
    [name |-> name, source |-> volumeSource.kind, ref |-> volumeSource.ref,
     userDataSecretRef |-> "", networkData |-> ""]

\* cdicorev1alpha1.DataVolume: a data volume template of a VM
DataVolume(name, namespace, spec) == [name |-> name, ns |-> namespace, spec |-> spec]

NoDataVolume == DataVolume("", "", [pvc |-> FALSE, storage |-> 0])

\* buildVolumes, the loop over the additional volumes from index i (counted
\* from 0) on; acc holds the disks, volumes and data volumes appended so far
RECURSIVE buildVolumes_additional(_, _, _, _, _, _)
buildVolumes_additional(i, acc, machineName, namespace, additionalVolumes, configuredDisks) ==
    IF i >= Len(additionalVolumes) THEN acc
    ELSE LET volume == additionalVolumes[i + 1]
             diskName == "disk" \o ToString(i)
             d == findDiskByName(volume.name, configuredDisks)
             disk == IF d # <<>> THEN [d[1] EXCEPT !.name = diskName]
                     ELSE buildDefaultDisk(diskName)
             dataVolumeName == machineName \o "-" \o ToString(i)
             next ==
                 IF volume.dataVolume # <<>>
                 THEN [disks |-> Append(acc.disks, disk),
                       volumes |-> Append(acc.volumes, DataVolumeVolume(diskName, dataVolumeName)),
                       dataVolumes |-> Append(acc.dataVolumes,
                                              DataVolume(dataVolumeName, namespace,
                                                         volume.dataVolume[1]))]
                 ELSE IF volume.volumeSource # <<>>
                 THEN [disks |-> Append(acc.disks, disk),
                       volumes |-> Append(acc.volumes,
                                          SourceVolume(diskName, volume.volumeSource[1])),
                       dataVolumes |-> acc.dataVolumes]
                 ELSE [acc EXCEPT !.disks = Append(acc.disks, disk)]
         IN  buildVolumes_additional(i + 1, next, machineName, namespace,
                                     additionalVolumes, configuredDisks)

\* buildVolumes: the disks, the volumes and the data volume templates of a VM
buildVolumes(machineName, namespace, secretName, networkData, rootVolume, additionalVolumes, configuredDisks) ==
    LET d == findDiskByName(RootDiskName, configuredDisks)
        rootDisk == IF d # <<>> THEN d[1] ELSE buildDefaultDisk(RootDiskName)
        root == [disks |-> <<rootDisk, Disk("cloudinitdisk", "virtio")>>,
                 volumes |-> <<DataVolumeVolume(RootDiskName, machineName),
                               CloudInitVolume("cloudinitdisk", secretName, networkData)>>,
                 dataVolumes |-> <<DataVolume(machineName, namespace, rootVolume)>>]
    IN  buildVolumes_additional(0, root, machineName, namespace,
                                additionalVolumes, configuredDisks)

\* strings.Replace(s, c, "", -1) on a string given as its characters
RemoveAll(s, c) == SelectSeq(s, LAMBDA x : x # c)

\* strings.IndexAny, counted from 1; 0 when no character of chars occurs
IndexAny(s, chars) ==
    LET found == {i \in 1..Len(s) : s[i] \in chars}
    IN  IF found = {} THEN 0 ELSE CHOOSE i \in found : \A j \in found : i <= j

\* normalizeVersion: every "v" is removed and the version is cut at the first
\* "-" or "+"
normalizeVersion(version) ==
    LET v == RemoveAll(version, "v")
        idx == IndexAny(v, {"-", "+"})
    IN  IF idx # 0 THEN SubSeq(v, 1, idx - 1) ELSE v

\* The number a sequence of decimal digits denotes
RECURSIVE Atoi(_)
Atoi(digits) ==
    IF digits = <<>> THEN 0
    ELSE 10 * Atoi(SubSeq(digits, 1, Len(digits) - 1))
         + (CHOOSE n \in 0..9 : ToString(n) = digits[Len(digits)])

\* strings.Split(s, ".")
RECURSIVE SplitDots(_)
SplitDots(s) ==
    LET idx == IndexAny(s, {"."})
    IN  IF idx = 0 THEN <<s>>
        ELSE <<SubSeq(s, 1, idx - 1)>> \o SplitDots(SubSeq(s, idx + 1, Len(s)))

\* semver.MustParse of a version without pre-release and build metadata; a
\* missing minor or patch number is 0
semverParse(s) ==
    LET f == SplitDots(s)
    IN  [major |-> Atoi(f[1]),
         minor |-> IF Len(f) >= 2 THEN Atoi(f[2]) ELSE 0,
         patch |-> IF Len(f) >= 3 THEN Atoi(f[3]) ELSE 0]

\* Variant: version 1.17 still gets the older label keys
getRegionAndZoneLabels_Through117(k8sVersion) ==
    LET v == semverParse(normalizeVersion(k8sVersion))
    IN  IF v.major < 1 \/ (v.major = 1 /\ v.minor <= 17)
        THEN [region |-> "failure-domain.beta.kubernetes.io/region",
              zone |-> "failure-domain.beta.kubernetes.io/zone"]
        ELSE [region |-> "topology.kubernetes.io/region",
              zone |-> "topology.kubernetes.io/zone"]

\* getRegionAndZoneLabels: the semver constraint "< 1.17" selects
\* corev1.LabelZoneRegion and corev1.LabelZoneFailureDomain
getRegionAndZoneLabels(k8sVersion) ==
    LET v == semverParse(normalizeVersion(k8sVersion))
    IN  IF v.major < 1 \/ (v.major = 1 /\ v.minor < 17)
        THEN [region |-> "failure-domain.beta.kubernetes.io/region",
              zone |-> "failure-domain.beta.kubernetes.io/zone"]
        ELSE [region |-> "topology.kubernetes.io/region",
              zone |-> "topology.kubernetes.io/zone"]

\* corev1.NodeSelectorRequirement
NodeSelectorRequirement(key, operator, values) ==
    [key |-> key, operator |-> operator, values |-> values]

defaultRegion == "default"
defaultZone == "default"

\* buildAffinity: the required node selector terms of the VM's node affinity;
\* a nil affinity is the empty sequence
buildAffinity(region, zone, k8sVersion) ==
    IF region = "" THEN <<>>
    ELSE LET labels == getRegionAndZoneLabels(k8sVersion)
             regionExpression ==
                 IF region # defaultRegion
                 THEN NodeSelectorRequirement(labels.region, "In", <<region>>)
                 ELSE NodeSelectorRequirement(labels.region, "DoesNotExist", <<>>)
             zoneExpressions ==
                 IF zone = "" THEN <<>>
                 ELSE IF zone # defaultZone
                 THEN <<NodeSelectorRequirement(labels.zone, "In", <<zone>>)>>
                 ELSE <<NodeSelectorRequirement(labels.zone, "DoesNotExist", <<>>)>>
         IN  <<[matchExpressions |-> <<regionExpression>> \o zoneExpressions]>>

\* Texts (user data, SSH keys) are sequences of tokens; this token is the
\* marker addUserSSHKeysToUserData looks for
Marker == <<"ssh_authorized_keys:">>

Whitespace == {" ", "\t", "\n"}

\* strings.Contains
Contains(text, sub) ==
    \E i \in 1..(Len(text) - Len(sub) + 1) : SubSeq(text, i, i + Len(sub) - 1) = sub

\* strings.TrimSpace
RECURSIVE TrimSpace(_)
TrimSpace(text) ==
    IF text = <<>> THEN text
    ELSE IF text[1] \in Whitespace THEN TrimSpace(Tail(text))
    ELSE IF text[Len(text)] \in Whitespace THEN TrimSpace(SubSeq(text, 1, Len(text) - 1))
    ELSE text

\* The lines "- <key>\n" the string builder is fed for the keys from index i on
RECURSIVE KeyLines(_, _)
KeyLines(sshKeys, i) ==
    IF i > Len(sshKeys) THEN <<>>
    ELSE <<"- ">> \o TrimSpace(sshKeys[i]) \o <<"\n">> \o KeyLines(sshKeys, i + 1)

\* Variant: the keys are appended whether or not the marker is present
addUserSSHKeysToUserData_NoCheck(userData, sshKeys) ==
    IF Len(sshKeys) = 0 THEN [userData |-> userData, err |-> ""]
    ELSE [userData |-> userData \o <<"\n">> \o Marker \o <<"\n">> \o KeyLines(sshKeys, 1),
          err |-> ""]

\* addUserSSHKeysToUserData: the user data and the message of the error ("" for
\* nil; the message is written without the quotes around the key)
addUserSSHKeysToUserData(userData, sshKeys) ==
    IF Len(sshKeys) = 0 THEN [userData |-> userData, err |-> ""]
    ELSE IF Contains(userData, Marker)
    THEN [userData |-> <<>>, err |-> "userData already contains key ssh_authorized_keys"]
    ELSE [userData |-> userData \o <<"\n">> \o Marker \o <<"\n">> \o KeyLines(sshKeys, 1),
          err |-> ""]

\* validateDataVolume: the fields of a data volume spec that are found invalid
validateDataVolume(path, dataVolume) ==
    IF ~dataVolume.pvc THEN {path \o ".pvc"}
    ELSE IF dataVolume.storage = 0 THEN {path \o ".pvc.resources.requests.storage"}
    ELSE {}

\* hasVolumeWithName
hasVolumeWithName(diskName, volumes) ==
    \E i \in 1..Len(volumes) : volumes[i].name = diskName

\* ValidateKubevirtProviderSpec: the fields of a provider spec that are found
\* invalid (the resource requests are left out of the model)
ValidateKubevirtProviderSpec(spec) ==
    LET volumes == spec.additionalVolumes
        disks == spec.disks
        volumeErrors(i) ==
            LET volume == volumes[i]
                path == "additionalVolumes[" \o ToString(i - 1) \o "]"
            IN  (IF volume.name = "" THEN {path \o ".name"} ELSE {})
                \cup (IF volume.dataVolume # <<>>
                      THEN validateDataVolume(path \o ".dataVolume", volume.dataVolume[1])
                      ELSE IF volume.volumeSource # <<>> THEN {}
                      ELSE {path})
        diskErrors(i) ==
            LET disk == disks[i]
                path == "devices.disks[" \o ToString(i - 1) \o "].name"
            IN  IF disk.name = "" THEN {path}
                ELSE IF \E j \in 1..(i - 1) : disks[j].name = disk.name THEN {path}
                ELSE IF ~hasVolumeWithName(disk.name, volumes) /\ disk.name # RootDiskName
                THEN {path}
                ELSE {}
    IN  (IF spec.region = "" THEN {"region"} ELSE {})
        \cup (IF spec.zone = "" THEN {"zone"} ELSE {})
        \cup validateDataVolume("rootVolume", spec.rootVolume)
        \cup UNION {volumeErrors(i) : i \in 1..Len(volumes)}
        \cup (IF Len(disks) > Len(volumes) + 1 THEN {"devices.disks"} ELSE {})
        \cup UNION {diskErrors(i) : i \in 1..Len(disks)}

\* The provider specs the machine server hands to the engine
AcceptedVolumeSpecs == {spec \in VolumeSpecs : ValidateKubevirtProviderSpec(spec) = {}}

\* fmt.Sprintf("userdata-%s-%s", machineName, strconv.Itoa(int(time.Now().Unix())))
userDataSecretName(machineName, t) == "userdata-" \o machineName \o "-" \o ToString(t)

IdleWorker ==
    [op |-> "none", pc |-> "idle", name |-> "", ns |-> "", tagsIn |-> EmptyMap, tags |-> EmptyMap,
     networksIn |-> <<>>, providerSpec |-> DefaultProviderSpec, k8sVersion |-> <<>>,
     userDataIn |-> <<>>, userData |-> <<>>, vm |-> NoVM, dv |-> NoDataVolume, secretName |-> "", attempts |-> 0,
     pid |-> "", ids |-> EmptyMap, idsNil |-> TRUE, err |-> NoErr, resp |-> NoStatus,
     trace |-> <<>>]

Call(verb, vm, secret, outcome) ==
    [verb |-> verb, vm |-> vm, secret |-> secret, outcome |-> outcome]

-----------------------------------------------------------------------------
(* The remote control plane, as the client calls see it *)

\* Variant: the object's name is not part of the key
Lookup_ByNamespace(store, ns, name) == {v \in store : v.ns = ns}

\* The object a types.NamespacedName denotes
Lookup(store, ns, name) == {v \in store : v.ns = ns /\ v.name = name}

\* c.Get(ctx, NamespacedName{namespace, machineName}, vm)
ClientGet(store, ns, name, fault) ==
    IF fault THEN [outcome |-> "transport", vm |-> NoVM]
    ELSE IF Lookup(store, ns, name) = {} THEN [outcome |-> "notFound", vm |-> NoVM]
    ELSE [outcome |-> "ok", vm |-> CHOOSE v \in Lookup(store, ns, name) : TRUE]

\* metav1 label selector: every key/value of the selector is among the labels
MatchingLabels(labels, selector) ==
    \A k \in DOMAIN selector : k \in DOMAIN labels /\ labels[k] = selector[k]

\* c.List(ctx, list, InNamespace(namespace) [, MatchingLabels(vmLabels)])
ClientList(store, ns, selector, useSelector) ==
    {v \in store : v.ns = ns /\ (useSelector => MatchingLabels(v.labels, selector))}

\* c.Create(ctx, virtualMachine): rejected when the name is taken
ClientCreateOutcome(store, vm, fault) ==
    IF fault THEN "transport"
    ELSE IF Lookup(store, vm.ns, vm.name) # {} THEN "alreadyExists"
    ELSE "ok"

\* c.Update(ctx, virtualMachine): optimistic concurrency on the resource version
ClientUpdateOutcome(store, vm, fault) ==
    IF fault THEN "transport"
    ELSE IF Lookup(store, vm.ns, vm.name) = {} THEN "notFound"
    ELSE IF \E v \in Lookup(store, vm.ns, vm.name) : v.rv # vm.rv \/ v.uid # vm.uid THEN "conflict"
    ELSE "ok"

\* c.Delete(ctx, virtualMachine): by namespace and name
ClientDeleteOutcome(store, vm, fault) ==
    IF fault THEN "transport"
    ELSE IF Lookup(store, vm.ns, vm.name) = {} THEN "notFound"
    ELSE "ok"

\* Variant: the not-found of the Delete call is not ignored
IgnoreNotFound_Identity(outcome) == outcome

\* client.IgnoreNotFound
IgnoreNotFound(outcome) == IF outcome = "notFound" THEN "ok" ELSE outcome

-----------------------------------------------------------------------------
(* The handlers of PluginSPIImpl, one operator per stretch of local code *)

\* The handler returns, and the machine server answers the request
Finish(wk, pid, err) ==
    [wk EXCEPT !.pc = "done", !.pid = pid, !.err = err,
               !.resp = MachinePlugin_respond(wk.op, wk.name, err)]

Traced(wk, verb, vm, secret, outcome) ==
    [wk EXCEPT !.trace = Append(wk.trace, Call(verb, vm, secret, outcome))]

\* CreateMachine up to its first remote write: the secret name, the client,
\* the networks, the volumes, the server version, the affinity, the user data
\* with the SSH keys, the labels (vmLabels aliases providerSpec.Tags when the
\* tag map is not empty) and the VirtualMachine object.
CreateMachine_build(machineName, namespace, providerSpec, userData, k8sVersion, t, failure) ==
    LET secretName == userDataSecretName(machineName, t)
        net == buildNetworks(providerSpec.networks)
        vol == buildVolumes(machineName, namespace, secretName, net.networkData,
                            providerSpec.rootVolume, providerSpec.additionalVolumes,
                            providerSpec.disks)
        affinity == buildAffinity(providerSpec.region, providerSpec.zone, k8sVersion)
        merged == addUserSSHKeysToUserData(userData, providerSpec.sshKeys)
        vmLabels == SetKey(providerSpec.tags, VMLabelKey, machineName)
        base == [IdleWorker EXCEPT !.op = "Create", !.name = machineName,
                                   !.tagsIn = providerSpec.tags, !.tags = providerSpec.tags,
                                   !.networksIn = providerSpec.networks,
                                   !.providerSpec = providerSpec, !.userDataIn = userData,
                                   !.secretName = secretName]
    IN  IF failure = "client"
        THEN Finish(base, "", Errorf("failed to create client", "client"))
        ELSE IF failure = "version"
        THEN Finish([base EXCEPT !.ns = namespace], "",
                    Errorf("failed to get server version", "version"))
        ELSE IF merged.err # ""
        THEN Finish([base EXCEPT !.ns = namespace, !.k8sVersion = k8sVersion], "",
                    Errorf("failed to add ssh keys to cloud-init", merged.err))
        ELSE [base EXCEPT !.ns = namespace, !.k8sVersion = k8sVersion,
                          !.userData = merged.userData,
                          !.tags = IF Cardinality(DOMAIN providerSpec.tags) > 0
                                   THEN vmLabels ELSE providerSpec.tags,
                          !.pc = "createVM",
                          !.vm = [ns |-> namespace, name |-> machineName, uid |-> 0, rv |-> 0,
                                  running |-> TRUE, labels |-> vmLabels,
                                  userDataSecretRef |-> secretName,
                                  interfaces |-> net.interfaces, networks |-> net.networks,
                                  networkData |-> net.networkData,
                                  affinity |-> affinity, disks |-> vol.disks,
                                  volumes |-> vol.volumes,
                                  dataVolumeTemplates |-> vol.dataVolumes]]

\* Variant: a rejected create of an existing name is taken for a success
CreateMachine_afterCreateVM_IgnoreExists(wk, outcome, stored) ==
    LET t == Traced(wk, "CreateVM", wk.vm, NoSecret, outcome)
    IN  IF outcome \notin {"ok", "alreadyExists"}
        THEN Finish(t, "", Errorf("failed to create VirtualMachine", outcome))
        ELSE [t EXCEPT !.vm = stored, !.pc = "createSecret"]

\* CreateMachine after c.Create(ctx, virtualMachine)
CreateMachine_afterCreateVM(wk, outcome, stored) ==
    LET t == Traced(wk, "CreateVM", wk.vm, NoSecret, outcome)
    IN  IF outcome # "ok"
        THEN Finish(t, "", Errorf("failed to create VirtualMachine", outcome))
        ELSE [t EXCEPT !.vm = stored, !.pc = "createSecret"]

\* Variant: the owner reference is left out
userDataSecret_Orphan(wk) ==
    [ns |-> wk.vm.ns, name |-> wk.secretName, ownerUID |-> 0,
     ownerName |-> "", controller |-> FALSE, userData |-> wk.userData]

\* The userdata secret: in the VM's namespace, controller-owned by the VM
userDataSecret(wk) ==
    [ns |-> wk.vm.ns, name |-> wk.secretName, ownerUID |-> wk.vm.uid,
     ownerName |-> wk.vm.name, controller |-> TRUE, userData |-> wk.userData]

\* Variant: a failure of the secret's creation is not returned
CreateMachine_afterCreateSecret_Swallow(wk, outcome) ==
    LET t == Traced(wk, "CreateSecret", NoVM, userDataSecret(wk), outcome)
    IN  Finish(t, encodeProviderID(wk.name), NoErr)

\* CreateMachine after c.Create(ctx, userDataSecret)
CreateMachine_afterCreateSecret(wk, outcome) ==
    LET t == Traced(wk, "CreateSecret", NoVM, userDataSecret(wk), outcome)
    IN  IF outcome # "ok"
        THEN Finish(t, "", Errorf("failed to create secret for userdata", outcome))
        ELSE Finish(t, encodeProviderID(wk.name), NoErr)

\* DeleteMachine, GetMachineStatus, ListMachines, ShutDownMachine up to their first remote call
Handler_begin(op, machineName, namespace, tags, failure) ==
    LET base == [IdleWorker EXCEPT !.op = op, !.name = machineName, !.tagsIn = tags, !.tags = tags]
    IN  IF failure = "client"
        THEN Finish(base, "", Errorf("failed to create client", "client"))
        ELSE [base EXCEPT !.ns = namespace,
                          !.pc = IF op = "List" THEN "listVMs" ELSE "getVM"]

\* Variant: a missing VM is reported like any other failure of the lookup
getVM_Untyped(store, namespace, machineName, fault) ==
    LET r == ClientGet(store, namespace, machineName, fault)
    IN  IF r.outcome = "ok" THEN [vm |-> r.vm, err |-> NoErr, outcome |-> r.outcome]
        ELSE [vm |-> NoVM, err |-> Errorf("failed to get VirtualMachine", r.outcome),
              outcome |-> r.outcome]

getVM(store, namespace, machineName, fault) ==
    LET r == ClientGet(store, namespace, machineName, fault)
    IN  IF r.outcome = "ok" THEN [vm |-> r.vm, err |-> NoErr, outcome |-> r.outcome]
        ELSE IF r.outcome = "notFound"
        THEN [vm |-> NoVM, err |-> MachineNotFoundError(machineName), outcome |-> r.outcome]
        ELSE [vm |-> NoVM, err |-> Errorf("failed to get VirtualMachine", r.outcome),
              outcome |-> r.outcome]

\* Variant: the lookup's not-found is returned to the caller like any other error
DeleteMachine_afterGet_NoAbsorb(wk, r) ==
    LET t == Traced(wk, "Get", r.vm, NoSecret, r.outcome)
    IN  IF r.err # NoErr
        THEN Finish(t, "", r.err)
        ELSE [t EXCEPT !.vm = r.vm, !.pc = "deleteVM"]

\* DeleteMachine after p.getVM
DeleteMachine_afterGet(wk, r) ==
    LET t == Traced(wk, "Get", r.vm, NoSecret, r.outcome)
    IN  IF r.err # NoErr
        THEN IF IsMachineNotFoundError(r.err)
             THEN Finish(t, "", NoErr)
             ELSE Finish(t, "", r.err)
        ELSE [t EXCEPT !.vm = r.vm, !.pc = "deleteVM"]

\* DeleteMachine after client.IgnoreNotFound(c.Delete(ctx, virtualMachine))
DeleteMachine_afterDelete(wk, outcome) ==
    LET t == Traced(wk, "Delete", wk.vm, NoSecret, outcome)
    IN  IF IgnoreNotFound(outcome) # "ok"
        THEN Finish(t, "", Errorf("failed to delete VirtualMachine", outcome))
        ELSE Finish(t, encodeProviderID(wk.vm.name), NoErr)

\* Variant: the provider ID is built from the VM's UID, not from its name
GetMachineStatus_afterGet_ByUID(wk, r) ==
    LET t == Traced(wk, "Get", r.vm, NoSecret, r.outcome)
    IN  IF r.err # NoErr
        THEN Finish(t, "", r.err)
        ELSE Finish([t EXCEPT !.vm = r.vm], encodeProviderID(ToString(r.vm.uid)), NoErr)

\* GetMachineStatus after p.getVM
GetMachineStatus_afterGet(wk, r) ==
    LET t == Traced(wk, "Get", r.vm, NoSecret, r.outcome)
    IN  IF r.err # NoErr
        THEN Finish(t, "", r.err)
        ELSE Finish([t EXCEPT !.vm = r.vm], encodeProviderID(r.vm.name), NoErr)

\* Variant: the running flag of the object read is left as it is
ShutDownMachine_afterGet_KeepRunning(wk, r) ==
    LET t == Traced(wk, "Get", r.vm, NoSecret, r.outcome)
    IN  IF r.err # NoErr
        THEN Finish(t, "", r.err)
        ELSE [t EXCEPT !.vm = r.vm, !.pc = "updateVM"]

\* Variant: the running flag of the object read is flipped
ShutDownMachine_afterGet_Toggle(wk, r) ==
    LET t == Traced(wk, "Get", r.vm, NoSecret, r.outcome)
    IN  IF r.err # NoErr
        THEN Finish(t, "", r.err)
        ELSE [t EXCEPT !.vm = [r.vm EXCEPT !.running = ~r.vm.running], !.pc = "updateVM"]

\* ShutDownMachine after p.getVM: virtualMachine.Spec.Running = false
ShutDownMachine_afterGet(wk, r) ==
    LET t == Traced(wk, "Get", r.vm, NoSecret, r.outcome)
    IN  IF r.err # NoErr
        THEN Finish(t, "", r.err)
        ELSE [t EXCEPT !.vm = [r.vm EXCEPT !.running = FALSE], !.pc = "updateVM"]

\* Variant: one attempt more than the steps of the backoff
RetryAgain_OnceMore(outcome, attemptsMade) ==
    outcome = "conflict" /\ attemptsMade < BackoffSteps + 1

\* Variant: an attempt follows every failed Update while attempts remain
RetryAgain_AnyFailure(outcome, attemptsMade) == outcome # "ok" /\ attemptsMade < BackoffSteps

\* retry.RetryOnConflict(retry.DefaultBackoff, ...): another attempt follows a
\* conflict while attempts remain.
RetryAgain(outcome, attemptsMade) == outcome = "conflict" /\ attemptsMade < BackoffSteps

\* ShutDownMachine after one attempt of c.Update(ctx, virtualMachine)
ShutDownMachine_afterUpdate(wk, outcome, stored) ==
    LET t == [Traced(wk, "Update", wk.vm, NoSecret, outcome) EXCEPT !.attempts = wk.attempts + 1]
    IN  IF outcome = "ok"
        THEN Finish([t EXCEPT !.vm = stored], encodeProviderID(wk.vm.name), NoErr)
        ELSE IF RetryAgain(outcome, t.attempts)
        THEN t
        ELSE Finish(t, "", Errorf("failed to update VirtualMachine running state", outcome))

\* Variant: the label selector is never passed
listVMs_NoSelector(store, namespace, vmLabels) ==
    ClientList(store, namespace, vmLabels, FALSE)

\* p.listVMs: the namespace option always, the label selector when there are labels
listVMs(store, namespace, vmLabels) ==
    ClientList(store, namespace, vmLabels, Cardinality(DOMAIN vmLabels) > 0)

\* ListMachines: providerIDs[encodeProviderID(vm.Name)] = vm.Name for every item
providerIDs(items) ==
    [p \in {encodeProviderID(v.name) : v \in items} |->
        CHOOSE n \in {v.name : v \in items} : encodeProviderID(n) = p]

\* ListMachines after p.listVMs
ListMachines_afterList(wk, fault, items) ==
    IF fault
    THEN Finish(Traced(wk, "List", NoVM, NoSecret, "transport"), "",
                Errorf("failed to list VirtualMachines", "transport"))
    ELSE [Finish(Traced(wk, "List", NoVM, NoSecret, "ok"), "", NoErr)
             EXCEPT !.ids = providerIDs(items), !.idsNil = FALSE]
-----------------------------------------------------------------------------
(* The data volume manager (defaultDataVolumeManager) *)

VolumeNames == {"dv1", "dv2"}

\* clouderrors.DataVolumeError: the typed not-found error of a data volume
DataVolumeError(name, namespace) ==
    [kind |-> "DataVolumeNotFound", name |-> name, namespace |-> namespace, msg |-> "",
     cause |-> ""]

IsDataVolumeError(err) == err.kind = "DataVolumeNotFound"

\* The error a client call returns as it is
APIError(outcome) ==
    IF outcome = "ok" THEN NoErr
    ELSE [kind |-> "api", name |-> "", namespace |-> "", msg |-> outcome, cause |-> ""]

LookupVolume(store, namespace, name) == {v \in store : v.ns = namespace /\ v.name = name}

\* The manager's call returns
Manager_return(wk, dv, err) == [wk EXCEPT !.pc = "done", !.dv = dv, !.err = err]

Manager_begin(op, name, namespace) ==
    [IdleWorker EXCEPT !.op = op, !.name = name, !.ns = namespace,
                       !.pc = IF op = "CreateVolume" THEN "createDV" ELSE "getDV"]

\* Variant: a missing data volume is reported like any other failure of the lookup
GetVolume_Untyped(store, name, namespace, fault) ==
    IF fault \/ LookupVolume(store, namespace, name) = {}
    THEN [dv |-> NoDataVolume, outcome |-> IF fault THEN "transport" ELSE "notFound",
          err |-> Errorf("failed to get DataVolume: " \o name,
                         IF fault THEN "transport" ELSE "notFound")]
    ELSE [dv |-> CHOOSE v \in LookupVolume(store, namespace, name) : TRUE,
          outcome |-> "ok", err |-> NoErr]

\* GetVolume: c.Get, a not-found answer becomes the typed error
GetVolume(store, name, namespace, fault) ==
    IF fault
    THEN [dv |-> NoDataVolume, outcome |-> "transport",
          err |-> Errorf("failed to get DataVolume: " \o name, "transport")]
    ELSE IF LookupVolume(store, namespace, name) = {}
    THEN [dv |-> NoDataVolume, outcome |-> "notFound", err |-> DataVolumeError(name, namespace)]
    ELSE [dv |-> CHOOSE v \in LookupVolume(store, namespace, name) : TRUE,
          outcome |-> "ok", err |-> NoErr]

GetVolume_afterGet(wk, r) ==
    Manager_return(Traced(wk, "GetVolume", NoVM, NoSecret, r.outcome), r.dv, r.err)

\* DeleteVolume after its GetVolume
DeleteVolume_afterGet(wk, r) ==
    LET t == Traced(wk, "GetVolume", NoVM, NoSecret, r.outcome)
    IN  IF r.err # NoErr
        THEN IF IsDataVolumeError(r.err)
             THEN Manager_return(t, NoDataVolume, NoErr)
             ELSE Manager_return(t, NoDataVolume,
                                 Errorf("failed to fetch data volume prior creation",
                                        ErrorText(r.err)))
        ELSE [t EXCEPT !.dv = r.dv, !.pc = "deleteDV"]

\* DeleteVolume after c.Delete(ctx, dv), whose error it returns as it is
DeleteVolume_afterDelete(wk, outcome) ==
    Manager_return(Traced(wk, "DeleteVolume", NoVM, NoSecret, outcome),
                   NoDataVolume, APIError(outcome))

\* CreateVolume after c.Create(ctx, dataVolume), whose error it returns as it is
CreateVolume_afterCreate(wk, outcome) ==
    Manager_return(Traced(wk, "CreateVolume", NoVM, NoSecret, outcome),
                   NoDataVolume, APIError(outcome))

-----------------------------------------------------------------------------
(* History bookkeeping *)

Machines == Namespaces \X (MachineNames \cup TemplateNames)

NotCreated == [pid |-> "", tags |-> EmptyMap]

\* Some worker is between the call and the return of op on this machine
InFlight(op, ns, name) ==
    \E w \in DOMAIN workers : /\ workers[w].op = op
                       /\ workers[w].pc \notin {"idle", "done"}
                       /\ workers[w].ns = ns /\ workers[w].name = name

\* A handler returned from DeleteMachine with success in this step
DeleteSucceeded(wk) == wk.op = "Delete" /\ wk.pc = "done" /\ wk.err = NoErr

NoteDelete(wk) ==
    IF DeleteSucceeded(wk) /\ ~InFlight("Create", wk.ns, wk.name)
    THEN deleted' = [deleted EXCEPT ![<<wk.ns, wk.name>>] = TRUE]
    ELSE deleted' = deleted

-----------------------------------------------------------------------------
(* Actions *)

\* The worker runs no handler and holds no result
Returned(wk) == wk.pc = "idle"

\* VMs that other tenants of the cluster keep in other namespaces
ForeignVMs ==
    {[NoVM EXCEPT !.ns = ns, !.name = n, !.running = TRUE,
                  !.labels = SetKey([k \in {"role"} |-> "node"], VMLabelKey, n)] :
        ns \in Namespaces \ CredentialNamespaces, n \in {"m1"}}

\* A stopped VM that an earlier run of the controller left in the credentials'
\* namespace; the UIDs of objects older than the run are not positive
LeftoverVMs ==
    {[NoVM EXCEPT !.ns = ns, !.name = n, !.uid = -1,
                  !.labels = SetKey(EmptyMap, VMLabelKey, n)] :
        ns \in CredentialNamespaces, n \in RaceNames}

Init ==
    /\ vms = ForeignVMs
    /\ secrets = {}
    /\ dataVolumes = {}
    /\ rev = 0
    /\ now = 0
    /\ workers = [w \in Workers |-> IdleWorker]
    /\ created = [m \in Machines |-> NotCreated]
    /\ deleted = [m \in Machines |-> FALSE]

\* The caller takes the result; the worker is free for the next call
Return(w) ==
    /\ workers[w].pc = "done"
    /\ workers' = [workers EXCEPT ![w] = IdleWorker]
    /\ UNCHANGED <<dataVolumes, vms, secrets, rev, now, created, deleted>>

CallCreateMachine(w, names, providerSpecs, userDatas, versions) ==
    /\ Returned(workers[w])
    /\ \E machineName \in names, namespace \in CredentialNamespaces,
          providerSpec \in providerSpecs, userData \in userDatas, version \in versions,
          failure \in {"none", "client", "version"} :
         LET wk == CreateMachine_build(machineName, namespace, providerSpec, userData,
                                       version.text, now, failure)
         IN  /\ workers' = [workers EXCEPT ![w] = wk]
             /\ deleted' = [deleted EXCEPT ![<<namespace, machineName>>] = FALSE]
    /\ UNCHANGED <<dataVolumes, vms, secrets, rev, now, created>>

CreateVM(w) ==
    LET wk == workers[w] IN
    /\ wk.pc = "createVM"
    /\ \E fault \in BOOLEAN :
         LET outcome == ClientCreateOutcome(vms, wk.vm, fault)
             stored == [wk.vm EXCEPT !.uid = rev + 1, !.rv = rev + 1]
         IN  /\ outcome = "ok" => rev < MaxRev
             /\ vms' = IF outcome = "ok" THEN vms \cup {stored} ELSE vms
             /\ rev' = IF outcome = "ok" THEN rev + 1 ELSE rev
             /\ workers' = [workers EXCEPT ![w] = CreateMachine_afterCreateVM(wk, outcome, stored)]
    /\ UNCHANGED <<dataVolumes, secrets, now, created, deleted>>

CreateSecret(w) ==
    LET wk == workers[w] IN
    /\ wk.pc = "createSecret"
    /\ \E fault \in BOOLEAN :
         LET secret == userDataSecret(wk)
             outcome == IF fault THEN "transport"
                        ELSE IF \E s \in secrets : s.ns = secret.ns /\ s.name = secret.name
                        THEN "alreadyExists" ELSE "ok"
             after == CreateMachine_afterCreateSecret(wk, outcome)
         IN  /\ secrets' = IF outcome = "ok" THEN secrets \cup {secret} ELSE secrets
             /\ workers' = [workers EXCEPT ![w] = after]
             /\ created' = IF after.err = NoErr /\ ~InFlight("Delete", wk.ns, wk.name)
                           THEN [created EXCEPT ![<<wk.ns, wk.name>>] = [pid |-> after.pid, tags |-> wk.tagsIn]]
                           ELSE created
    /\ UNCHANGED <<dataVolumes, vms, rev, now, deleted>>

CallDeleteMachine(w, names) ==
    /\ Returned(workers[w])
    /\ \E machineName \in names, namespace \in CredentialNamespaces, failure \in {"none", "client"} :
         /\ workers' = [workers EXCEPT
                          ![w] = Handler_begin("Delete", machineName, namespace, EmptyMap, failure)]
         /\ created' = [created EXCEPT ![<<namespace, machineName>>] = NotCreated]
    /\ UNCHANGED <<dataVolumes, vms, secrets, rev, now, deleted>>

DeleteGet(w) ==
    LET wk == workers[w] IN
    /\ wk.op = "Delete" /\ wk.pc = "getVM"
    /\ \E fault \in BOOLEAN :
         LET after == DeleteMachine_afterGet(wk, getVM(vms, wk.ns, wk.name, fault))
         IN  /\ workers' = [workers EXCEPT ![w] = after]
             /\ NoteDelete(after)
    /\ UNCHANGED <<dataVolumes, vms, secrets, rev, now, created>>

DeleteDelete(w) ==
    LET wk == workers[w] IN
    /\ wk.op = "Delete" /\ wk.pc = "deleteVM"
    /\ \E fault \in BOOLEAN :
         LET outcome == ClientDeleteOutcome(vms, wk.vm, fault)
             after == DeleteMachine_afterDelete(wk, outcome)
         IN  /\ vms' = IF outcome = "ok" THEN vms \ Lookup(vms, wk.vm.ns, wk.vm.name) ELSE vms
             /\ workers' = [workers EXCEPT ![w] = after]
             /\ NoteDelete(after)
    /\ UNCHANGED <<dataVolumes, secrets, rev, now, created>>

CallGetMachineStatus(w, names) ==
    /\ Returned(workers[w])
    /\ \E machineName \in names, namespace \in CredentialNamespaces, failure \in {"none", "client"} :
         workers' = [workers EXCEPT
                       ![w] = Handler_begin("Status", machineName, namespace, EmptyMap, failure)]
    /\ UNCHANGED <<dataVolumes, vms, secrets, rev, now, created, deleted>>

\* Variant: the lookup clears the labels of the VM it found
StatusGet_ClearLabels(w) ==
    LET wk == workers[w] IN
    /\ wk.op = "Status" /\ wk.pc = "getVM"
    /\ \E fault \in BOOLEAN :
         LET r == getVM(vms, wk.ns, wk.name, fault)
         IN  /\ workers' = [workers EXCEPT ![w] = GetMachineStatus_afterGet(wk, r)]
             /\ vms' = IF r.outcome = "ok"
                       THEN (vms \ {r.vm}) \cup {[r.vm EXCEPT !.labels = EmptyMap]}
                       ELSE vms
    /\ UNCHANGED <<dataVolumes, secrets, rev, now, created, deleted>>

StatusGet(w) ==
    LET wk == workers[w] IN
    /\ wk.op = "Status" /\ wk.pc = "getVM"
    /\ \E fault \in BOOLEAN :
         workers' = [workers EXCEPT
                       ![w] = GetMachineStatus_afterGet(wk, getVM(vms, wk.ns, wk.name, fault))]
    /\ UNCHANGED <<dataVolumes, vms, secrets, rev, now, created, deleted>>

CallListMachines(w, tagMaps) ==
    /\ Returned(workers[w])
    /\ \E namespace \in CredentialNamespaces, tags \in tagMaps, failure \in {"none", "client"} :
         workers' = [workers EXCEPT ![w] = Handler_begin("List", "", namespace, tags, failure)]
    /\ UNCHANGED <<dataVolumes, vms, secrets, rev, now, created, deleted>>

ListList(w) ==
    LET wk == workers[w] IN
    /\ wk.op = "List" /\ wk.pc = "listVMs"
    /\ \E fault \in BOOLEAN :
         workers' = [workers EXCEPT
                       ![w] = ListMachines_afterList(wk, fault, listVMs(vms, wk.ns, wk.tags))]
    /\ UNCHANGED <<dataVolumes, vms, secrets, rev, now, created, deleted>>

CallShutDownMachine(w, names) ==
    /\ Returned(workers[w])
    /\ \E machineName \in names, namespace \in CredentialNamespaces, failure \in {"none", "client"} :
         workers' = [workers EXCEPT
                       ![w] = Handler_begin("ShutDown", machineName, namespace, EmptyMap, failure)]
    /\ UNCHANGED <<dataVolumes, vms, secrets, rev, now, created, deleted>>

ShutDownGet(w) ==
    LET wk == workers[w] IN
    /\ wk.op = "ShutDown" /\ wk.pc = "getVM"
    /\ \E fault \in BOOLEAN :
         workers' = [workers EXCEPT
                       ![w] = ShutDownMachine_afterGet(wk, getVM(vms, wk.ns, wk.name, fault))]
    /\ UNCHANGED <<dataVolumes, vms, secrets, rev, now, created, deleted>>

ShutDownUpdate(w) ==
    LET wk == workers[w] IN
    /\ wk.op = "ShutDown" /\ wk.pc = "updateVM"
    /\ \E fault \in BOOLEAN :
         LET outcome == ClientUpdateOutcome(vms, wk.vm, fault)
             stored == [wk.vm EXCEPT !.rv = rev + 1]
         IN  /\ outcome = "ok" => rev < MaxRev
             /\ vms' = IF outcome = "ok"
                       THEN (vms \ Lookup(vms, wk.vm.ns, wk.vm.name)) \cup {stored}
                       ELSE vms
             /\ rev' = IF outcome = "ok" THEN rev + 1 ELSE rev
             /\ workers' = [workers EXCEPT ![w] = ShutDownMachine_afterUpdate(wk, outcome, stored)]
    /\ UNCHANGED <<dataVolumes, secrets, now, created, deleted>>

\* Another actor of the cluster writes a VM (a status update): the resource version moves
OtherActorUpdate ==
    /\ rev < MaxRev
    /\ \E v \in vms : /\ v.ns \in CredentialNamespaces
                      /\ vms' = (vms \ {v}) \cup {[v EXCEPT !.rv = rev + 1]}
    /\ rev' = rev + 1
    /\ UNCHANGED <<dataVolumes, secrets, now, workers, created, deleted>>

\* The control plane's garbage collector removes a secret whose owner is gone
GarbageCollect ==
    /\ \E s \in secrets : /\ ~\E v \in vms : v.uid = s.ownerUID
                          /\ secrets' = secrets \ {s}
    /\ UNCHANGED <<dataVolumes, vms, rev, now, workers, created, deleted>>

Tick ==
    /\ now < MaxTime
    /\ now' = now + 1
    /\ UNCHANGED <<dataVolumes, vms, secrets, rev, workers, created, deleted>>

CallCreateVolume(w) ==
    /\ Returned(workers[w])
    /\ \E name \in VolumeNames, namespace \in Namespaces :
         workers' = [workers EXCEPT ![w] = Manager_begin("CreateVolume", name, namespace)]
    /\ UNCHANGED <<vms, secrets, dataVolumes, rev, now, created, deleted>>

CreateVolumeCreate(w) ==
    LET wk == workers[w] IN
    /\ wk.op = "CreateVolume" /\ wk.pc = "createDV"
    /\ \E fault \in BOOLEAN :
         LET dataVolume == DataVolume(wk.name, wk.ns, RootVolume)
             outcome == IF fault THEN "transport"
                        ELSE IF LookupVolume(dataVolumes, wk.ns, wk.name) # {}
                        THEN "alreadyExists" ELSE "ok"
         IN  /\ dataVolumes' = IF outcome = "ok" THEN dataVolumes \cup {dataVolume}
                               ELSE dataVolumes
             /\ workers' = [workers EXCEPT ![w] = CreateVolume_afterCreate(wk, outcome)]
    /\ UNCHANGED <<vms, secrets, rev, now, created, deleted>>

CallGetVolume(w) ==
    /\ Returned(workers[w])
    /\ \E name \in VolumeNames, namespace \in Namespaces :
         workers' = [workers EXCEPT ![w] = Manager_begin("GetVolume", name, namespace)]
    /\ UNCHANGED <<vms, secrets, dataVolumes, rev, now, created, deleted>>

GetVolumeGet(w) ==
    LET wk == workers[w] IN
    /\ wk.op = "GetVolume" /\ wk.pc = "getDV"
    /\ \E fault \in BOOLEAN :
         workers' = [workers EXCEPT
                       ![w] = GetVolume_afterGet(wk, GetVolume(dataVolumes, wk.name, wk.ns, fault))]
    /\ UNCHANGED <<vms, secrets, dataVolumes, rev, now, created, deleted>>

CallDeleteVolume(w) ==
    /\ Returned(workers[w])
    /\ \E name \in VolumeNames, namespace \in Namespaces :
         workers' = [workers EXCEPT ![w] = Manager_begin("DeleteVolume", name, namespace)]
    /\ UNCHANGED <<vms, secrets, dataVolumes, rev, now, created, deleted>>

DeleteVolumeGet(w) ==
    LET wk == workers[w] IN
    /\ wk.op = "DeleteVolume" /\ wk.pc = "getDV"
    /\ \E fault \in BOOLEAN :
         workers' = [workers EXCEPT
                       ![w] = DeleteVolume_afterGet(wk, GetVolume(dataVolumes, wk.name, wk.ns, fault))]
    /\ UNCHANGED <<vms, secrets, dataVolumes, rev, now, created, deleted>>

DeleteVolumeDelete(w) ==
    LET wk == workers[w] IN
    /\ wk.op = "DeleteVolume" /\ wk.pc = "deleteDV"
    /\ \E fault \in BOOLEAN :
         LET outcome == IF fault THEN "transport"
                        ELSE IF LookupVolume(dataVolumes, wk.dv.ns, wk.dv.name) = {}
                        THEN "notFound" ELSE "ok"
         IN  /\ dataVolumes' = IF outcome = "ok"
                               THEN dataVolumes \ LookupVolume(dataVolumes, wk.dv.ns, wk.dv.name)
                               ELSE dataVolumes
             /\ workers' = [workers EXCEPT ![w] = DeleteVolume_afterDelete(wk, outcome)]
    /\ UNCHANGED <<vms, secrets, rev, now, created, deleted>>

Next ==
    \/ \E w \in Workers : CallCreateMachine(w, MachineNames, TaggedSpecs(TagMaps), DefaultUserDatas, DefaultVersions)
    \/ \E w \in Workers : CreateVM(w)
    \/ \E w \in Workers : CreateSecret(w)
    \/ \E w \in Workers : CallDeleteMachine(w, MachineNames)
    \/ \E w \in Workers : DeleteGet(w)
    \/ \E w \in Workers : DeleteDelete(w)
    \/ \E w \in Workers : CallGetMachineStatus(w, MachineNames)
    \/ \E w \in Workers : StatusGet(w)
    \/ \E w \in Workers : CallListMachines(w, TagMaps)
    \/ \E w \in Workers : ListList(w)
    \/ \E w \in Workers : CallShutDownMachine(w, MachineNames)
    \/ \E w \in Workers : ShutDownGet(w)
    \/ \E w \in Workers : ShutDownUpdate(w)
    \/ \E w \in Workers : Return(w)
    \/ OtherActorUpdate
    \/ GarbageCollect
    \/ Tick

\* One orchestrator worker and the other actors of the cluster
Spec == Init /\ [][Next]_vars

InitRace ==
    /\ vms \in {ForeignVMs, ForeignVMs \cup LeftoverVMs}
    /\ secrets = {}
    /\ dataVolumes = {}
    /\ rev = 0
    /\ now = 0
    /\ workers = [w \in RaceWorkers |-> IdleWorker]
    /\ created = [m \in Machines |-> NotCreated]
    /\ deleted = [m \in Machines |-> FALSE]

NextRace ==
    \/ \E w \in RaceWorkers : CallCreateMachine(w, RaceNames, TaggedSpecs(RaceTagMaps), DefaultUserDatas, DefaultVersions)
    \/ \E w \in RaceWorkers : CreateVM(w)
    \/ \E w \in RaceWorkers : CreateSecret(w)
    \/ \E w \in RaceWorkers : CallDeleteMachine(w, RaceNames)
    \/ \E w \in RaceWorkers : DeleteGet(w)
    \/ \E w \in RaceWorkers : DeleteDelete(w)
    \/ \E w \in RaceWorkers : CallGetMachineStatus(w, RaceNames)
    \/ \E w \in RaceWorkers : StatusGet(w)
    \/ \E w \in RaceWorkers : CallListMachines(w, RaceTagMaps)
    \/ \E w \in RaceWorkers : ListList(w)
    \/ \E w \in RaceWorkers : CallShutDownMachine(w, RaceNames)
    \/ \E w \in RaceWorkers : ShutDownGet(w)
    \/ \E w \in RaceWorkers : ShutDownUpdate(w)
    \/ \E w \in RaceWorkers : Return(w)
    \/ OtherActorUpdate
    \/ GarbageCollect

\* Two orchestrator workers on one machine name
SpecRace == InitRace /\ [][NextRace]_vars

\* The machine name each worker of a pair calls the handlers with
PairNames == [w \in RaceWorkers |-> IF w = "w1" THEN {"m1"} ELSE {"m2"}]

NextPair ==
    \/ \E w \in RaceWorkers : CallCreateMachine(w, PairNames[w], TaggedSpecs(TagMaps), DefaultUserDatas, DefaultVersions)
    \/ \E w \in RaceWorkers : CreateVM(w)
    \/ \E w \in RaceWorkers : CreateSecret(w)
    \/ \E w \in RaceWorkers : CallDeleteMachine(w, PairNames[w])
    \/ \E w \in RaceWorkers : DeleteGet(w)
    \/ \E w \in RaceWorkers : DeleteDelete(w)
    \/ \E w \in RaceWorkers : CallShutDownMachine(w, PairNames[w])
    \/ \E w \in RaceWorkers : ShutDownGet(w)
    \/ \E w \in RaceWorkers : ShutDownUpdate(w)
    \/ \E w \in RaceWorkers : Return(w)
    \/ OtherActorUpdate
    \/ GarbageCollect

\* Two orchestrator workers, each on a machine name of its own
SpecPair == InitRace /\ [][NextPair]_vars

NextBuild ==
    \/ \E w \in Workers : CallCreateMachine(w, RaceNames, NetworkedSpecs, DefaultUserDatas, DefaultVersions)
    \/ \E w \in Workers : CreateVM(w)
    \/ \E w \in Workers : CreateSecret(w)
    \/ \E w \in Workers : Return(w)

\* CreateMachine for provider specs with every list of network descriptors
SpecBuild == Init /\ [][NextBuild]_vars

NextAffinity ==
    \/ \E w \in Workers : CallCreateMachine(w, RaceNames, PlacedSpecs, DefaultUserDatas,
                                            ServerVersions)
    \/ \E w \in Workers : CreateVM(w)
    \/ \E w \in Workers : CreateSecret(w)
    \/ \E w \in Workers : Return(w)

\* CreateMachine for every region, zone and server version
SpecAffinity == Init /\ [][NextAffinity]_vars

NextUserData ==
    \/ \E w \in Workers : CallCreateMachine(w, RaceNames, KeyedSpecs, UserDatas,
                                            DefaultVersions)
    \/ \E w \in Workers : CreateVM(w)
    \/ \E w \in Workers : CreateSecret(w)
    \/ \E w \in Workers : Return(w)

\* CreateMachine for every user data and every list of SSH keys
SpecUserData == Init /\ [][NextUserData]_vars

NextVolumes ==
    \/ \E w \in Workers : CallCreateMachine(w, RaceNames, AcceptedVolumeSpecs,
                                            DefaultUserDatas, DefaultVersions)
    \/ \E w \in Workers : CreateVM(w)
    \/ \E w \in Workers : CreateSecret(w)
    \/ \E w \in Workers : Return(w)

\* CreateMachine for every accepted list of additional volumes and disks
SpecVolumes == Init /\ [][NextVolumes]_vars

NextTemplates ==
    \/ \E w \in Workers : CallCreateMachine(w, TemplateNames, DataVolumeSpecs,
                                            DefaultUserDatas, DefaultVersions)
    \/ \E w \in Workers : CreateVM(w)
    \/ \E w \in Workers : CreateSecret(w)
    \/ \E w \in Workers : Return(w)

\* CreateMachine of machines with fresh data volumes in one namespace
SpecTemplates == Init /\ [][NextTemplates]_vars

NextCreateRace ==
    \/ \E w \in RaceWorkers : CallCreateMachine(w, RaceNames, TaggedSpecs(RaceTagMaps),
                                                DefaultUserDatas, DefaultVersions)
    \/ \E w \in RaceWorkers : CreateVM(w)
    \/ \E w \in RaceWorkers : CreateSecret(w)
    \/ \E w \in RaceWorkers : Return(w)

\* Two orchestrator workers creating one machine name
SpecCreateRace == InitRace /\ [][NextCreateRace]_vars

NextManager ==
    \/ \E w \in Workers : CallCreateVolume(w)
    \/ \E w \in Workers : CreateVolumeCreate(w)
    \/ \E w \in Workers : CallGetVolume(w)
    \/ \E w \in Workers : GetVolumeGet(w)
    \/ \E w \in Workers : CallDeleteVolume(w)
    \/ \E w \in Workers : DeleteVolumeGet(w)
    \/ \E w \in Workers : DeleteVolumeDelete(w)
    \/ \E w \in Workers : Return(w)

\* One caller of the data volume manager
SpecManager == Init /\ [][NextManager]_vars

TypeOK ==
    /\ rev \in 0..MaxRev
    /\ now \in 0..MaxTime
    /\ \A v \in vms : Cardinality(Lookup(vms, v.ns, v.name)) = 1
-----------------------------------------------------------------------------
(* Properties *)

\* The worker took this step
Stepped(w) == workers'[w] # workers[w]

LastCall(wk) == wk.trace[Len(wk.trace)]

\* The remote call made in this step was answered by the control plane
Answered(w) == LastCall(workers'[w]).outcome # "transport"

Verbs(wk) == {wk.trace[i].verb : i \in 1..Len(wk.trace)}

Absent(ns, name) == ~\E v \in vms : v.ns = ns /\ v.name = name

\* C1: DeleteMachine of a machine name that has no VM in the credentials'
\* namespace returns an empty provider ID and no error, issues no Delete call
\* and leaves the VMs and secrets of the control plane as they are; so does a
\* DeleteMachine that follows a successful DeleteMachine of the name.
C1_DeleteAbsentStep ==
    \A w \in DOMAIN workers :
        LET wk == workers[w] IN
        (/\ wk.op = "Delete" /\ wk.pc = "getVM" /\ Stepped(w) /\ Answered(w)
         /\ (Absent(wk.ns, wk.name) \/ deleted[<<wk.ns, wk.name>>]))
        => /\ workers'[w].pc = "done"
           /\ workers'[w].pid = ""
           /\ workers'[w].err = NoErr
           /\ "Delete" \notin Verbs(workers'[w])
           /\ vms' = vms /\ secrets' = secrets

C1_DeleteAbsent == [][C1_DeleteAbsentStep]_vars

\* A second DeleteMachine found the machine gone: its secret is still there,
\* and a VM of the same name lives in another namespace
C1_Witness ==
    \E w \in DOMAIN workers :
        LET wk == workers[w] IN
        /\ wk.op = "Delete" /\ wk.pc = "done" /\ wk.pid = "" /\ wk.err = NoErr
        /\ Len(wk.trace) = 1 /\ wk.trace[1].outcome = "notFound"
        /\ \E s \in secrets : s.ns = wk.ns /\ s.ownerName = wk.name
        /\ \E v \in vms : v.name = wk.name /\ v.ns # wk.ns

\* C3: for a machine name with no VM in the namespace GetMachineStatus and
\* ShutDownMachine return an empty provider ID and the MachineNotFoundError
\* of exactly this name, ShutDownMachine without any Update; no other path
\* returns a MachineNotFoundError; for a present VM GetMachineStatus returns
\* its provider ID and no error.
C3_LookupStep ==
    \A w \in DOMAIN workers :
        LET wk == workers[w] IN
        (/\ wk.op \in {"Status", "ShutDown"} /\ wk.pc = "getVM" /\ Stepped(w) /\ Answered(w))
        => /\ Absent(wk.ns, wk.name) =>
                /\ workers'[w].pc = "done"
                /\ workers'[w].pid = ""
                /\ workers'[w].err = MachineNotFoundError(wk.name)
                /\ "Update" \notin Verbs(workers'[w])
           /\ (~Absent(wk.ns, wk.name) /\ wk.op = "Status") =>
                /\ workers'[w].pc = "done"
                /\ workers'[w].pid = ProviderName \o "://" \o wk.name
                /\ workers'[w].err = NoErr
           /\ vms' = vms

C3_OnlyLookups ==
    \A w \in DOMAIN workers :
        (workers'[w].pc = "done" /\ workers'[w].err.kind = "MachineNotFound")
        => /\ workers'[w].op \in {"Status", "ShutDown"}
           /\ Len(workers'[w].trace) = 1
           /\ workers'[w].trace[1].outcome = "notFound"
           /\ workers'[w].err.name = workers'[w].name

C3_TypedNotFound == [][C3_LookupStep /\ C3_OnlyLookups]_vars

\* ShutDownMachine reported the typed not-found for a name whose VM is gone
C3_Witness ==
    \E w \in DOMAIN workers :
        LET wk == workers[w] IN
        /\ wk.op = "ShutDown" /\ wk.pc = "done"
        /\ wk.err = MachineNotFoundError(wk.name) /\ wk.pid = ""
        /\ Absent(wk.ns, wk.name)
        /\ \E v \in vms : v.ns = wk.ns

\* C2: when the VM was changed by another actor between ShutDownMachine's read
\* and its Update, so that the first Update attempt reports a conflict, a
\* later attempt succeeds: ShutDownMachine returns the provider ID and no
\* error, and the VM's running flag is false.
C2_ShutDownSurvivesConflict ==
    \A w \in DOMAIN workers :
        LET wk == workers[w] IN
        (/\ wk.op = "ShutDown" /\ wk.pc = "done"
         /\ Len(wk.trace) >= 2 /\ wk.trace[2].outcome = "conflict"
         /\ \A i \in 1..Len(wk.trace) : wk.trace[i].outcome \in {"ok", "conflict"})
        => /\ wk.err = NoErr
           /\ wk.pid = ProviderName \o "://" \o wk.name
           /\ LastCall(wk).outcome = "ok"
           /\ \E v \in vms : v.ns = wk.ns /\ v.name = wk.name /\ ~v.running

\* C4: CreateMachine submits the VM first and the userdata secret only after
\* the VM was created; the secret lies in the VM's namespace under the name
\* the VM's cloud-init volume references and is controller-owned by the VM
\* just created; a successful call returns the provider ID of the machine
\* name, having created the VM with running = true and made no further call.
C4_TraceShape(wk) ==
    wk.op = "Create" =>
        /\ Len(wk.trace) <= 2
        /\ Len(wk.trace) >= 1 => wk.trace[1].verb = "CreateVM"
        /\ Len(wk.trace) = 2 =>
              /\ wk.trace[1].outcome = "ok"
              /\ wk.trace[2].verb = "CreateSecret"
              /\ wk.trace[2].secret.ns = wk.trace[1].vm.ns
              /\ wk.trace[2].secret.name = wk.trace[1].vm.userDataSecretRef
              /\ wk.trace[2].secret.ownerName = wk.trace[1].vm.name
              /\ wk.trace[2].secret.controller
        /\ (wk.pc = "done" /\ wk.err = NoErr) =>
              /\ wk.pid = ProviderName \o "://" \o wk.name
              /\ Len(wk.trace) = 2 /\ wk.trace[2].outcome = "ok"
              /\ wk.trace[1].vm.running
              /\ wk.trace[1].vm.name = wk.name

C4_CreateStep ==
    \A w \in DOMAIN workers :
        LET wk == workers[w] IN
        /\ (wk.pc = "createVM" /\ Stepped(w)) =>
              /\ secrets' = secrets
              /\ \/ vms' = vms /\ workers'[w].pc = "done" /\ workers'[w].err # NoErr
                 \/ \E v \in vms' \ vms :
                        /\ vms' = vms \cup {v}
                        /\ v.running /\ v.name = wk.name /\ v.ns = wk.ns
                        /\ workers'[w].vm = v
                        /\ workers'[w].pc = "createSecret"
        /\ (wk.pc = "createSecret" /\ Stepped(w)) =>
              /\ vms' = vms
              /\ \/ secrets' = secrets /\ workers'[w].err # NoErr
                 \/ \E s \in secrets' \ secrets :
                        /\ secrets' = secrets \cup {s}
                        /\ s.ownerUID = wk.vm.uid /\ s.ownerName = wk.vm.name /\ s.controller
                        /\ s.ns = wk.vm.ns /\ s.name = wk.vm.userDataSecretRef
        /\ C4_TraceShape(workers'[w])

C4_CreateOrder == [][C4_CreateStep]_vars

\* CreateMachine succeeded: the VM and its secret are there, the secret owned by the VM
C4_Witness ==
    \E w \in DOMAIN workers :
        LET wk == workers[w] IN
        /\ wk.op = "Create" /\ wk.pc = "done" /\ wk.err = NoErr
        /\ \E v \in vms, s \in secrets :
              /\ v.ns = wk.ns /\ v.name = wk.name /\ v.running
              /\ s.ownerUID = v.uid /\ s.name = v.userDataSecretRef /\ s.ns = v.ns

\* C5: no two CreateMachine attempts for one machine name generate the same
\* userdata secret name, so the secret creation of an attempt never collides
\* with a secret left by an earlier attempt.
C5_SecretNameUnique ==
    \A w \in DOMAIN workers :
        LET wk == workers[w] IN
        wk.op = "Create" =>
            /\ wk.pc \in {"createVM", "createSecret"} =>
                  ~\E s \in secrets : s.ns = wk.ns /\ s.name = wk.secretName
            /\ ~(/\ wk.pc = "done" /\ Len(wk.trace) = 2
                 /\ wk.trace[2].outcome = "alreadyExists")

\* C6: when the lookup of DeleteMachine found the VM but the VM is gone when
\* the Delete call is issued, DeleteMachine returns the provider ID of the
\* machine name and no error, and the machine is absent; a Delete call that
\* fails otherwise makes DeleteMachine return an error.
C6_DeleteStep ==
    \A w \in DOMAIN workers :
        LET wk == workers[w] IN
        (wk.op = "Delete" /\ wk.pc = "deleteVM" /\ Stepped(w)) =>
            /\ workers'[w].pc = "done"
            /\ Answered(w) =>
                  /\ workers'[w].pid = ProviderName \o "://" \o wk.name
                  /\ workers'[w].err = NoErr
                  /\ ~\E v \in vms' : v.ns = wk.ns /\ v.name = wk.name
                  /\ Absent(wk.ns, wk.name) => vms' = vms
            /\ ~Answered(w) =>
                  /\ workers'[w].pid = ""
                  /\ workers'[w].err.kind = "opaque"
                  /\ vms' = vms

C6_DeleteRace == [][C6_DeleteStep]_vars

\* The VM vanished between the lookup and the Delete call of a DeleteMachine
C6_Witness ==
    \E w \in DOMAIN workers :
        LET wk == workers[w] IN
        /\ wk.op = "Delete" /\ wk.pc = "done"
        /\ Len(wk.trace) = 2
        /\ wk.trace[1].outcome = "ok" /\ wk.trace[2].outcome = "notFound"
        /\ wk.pid = ProviderName \o "://" \o wk.name /\ wk.err = NoErr

\* C7: ShutDownMachine of a present VM that nobody wrote since the read issues
\* exactly one Update, of the object read with the running flag false,
\* returns the provider ID of the machine name and no error, and the VM of
\* the control plane then is the VM read with running = false.
C7_ShutDownStep ==
    \A w \in DOMAIN workers :
        LET wk == workers[w] IN
        (/\ wk.op = "ShutDown" /\ wk.pc = "updateVM" /\ Stepped(w) /\ Answered(w)
         /\ wk.attempts = 0
         /\ wk.trace[1].vm \in vms)
        => LET read == wk.trace[1].vm IN
           /\ workers'[w].pc = "done"
           /\ workers'[w].pid = ProviderName \o "://" \o wk.name
           /\ workers'[w].err = NoErr
           /\ Len(workers'[w].trace) = 2
           /\ workers'[w].trace[2].verb = "Update"
           /\ workers'[w].trace[2].vm = [read EXCEPT !.running = FALSE]
           /\ \E v \in vms' :
                 /\ v = [read EXCEPT !.running = FALSE, !.rv = v.rv]
                 /\ vms' \ {v} = vms \ {read}
           /\ secrets' = secrets

C7_ShutDownStops == [][C7_ShutDownStep]_vars

\* A running VM was shut down by one Update
C7_Witness ==
    \E w \in DOMAIN workers :
        LET wk == workers[w] IN
        /\ wk.op = "ShutDown" /\ wk.pc = "done" /\ wk.err = NoErr
        /\ Len(wk.trace) = 2 /\ wk.trace[1].vm.running
        /\ \E v \in vms : v.ns = wk.ns /\ v.name = wk.name /\ ~v.running

\* C8: CreateMachine for a machine name whose VM exists makes one VM create
\* attempt, returns an error and an empty provider ID, creates no secret and
\* leaves the existing VM as it is.
C8_CollisionStep ==
    \A w \in DOMAIN workers :
        LET wk == workers[w] IN
        /\ (/\ wk.op = "Create" /\ wk.pc = "createVM" /\ Stepped(w) /\ Answered(w)
            /\ ~Absent(wk.ns, wk.name))
           => /\ workers'[w].pc = "done"
              /\ workers'[w].pid = ""
              /\ workers'[w].err.kind = "opaque"
              /\ Len(workers'[w].trace) = 1
              /\ vms' = vms /\ secrets' = secrets
        /\ (/\ workers'[w].op = "Create" /\ Len(workers'[w].trace) >= 1
            /\ workers'[w].trace[1].outcome = "alreadyExists")
           => /\ workers'[w].pc = "done"
              /\ Verbs(workers'[w]) = {"CreateVM"}
              /\ Len(workers'[w].trace) = 1

C8_CreateCollision == [][C8_CollisionStep]_vars

\* A create was rejected by a stopped VM whose labels differ from the ones submitted
C8_Witness ==
    \E w \in DOMAIN workers :
        LET wk == workers[w] IN
        /\ wk.op = "Create" /\ wk.pc = "done" /\ wk.pid = "" /\ wk.err # NoErr
        /\ Len(wk.trace) = 1 /\ wk.trace[1].outcome = "alreadyExists"
        /\ \E v \in vms : /\ v.ns = wk.ns /\ v.name = wk.name
                          /\ ~v.running /\ v.labels # wk.trace[1].vm.labels

\* C9: ListMachines returns exactly the entries providerID(name) -> name of
\* the VMs of the credentials' namespace whose labels contain every key/value
\* of the spec's tags (all VMs of the namespace for empty tags), nothing of
\* other namespaces, as many entries as matching VMs, and an empty map with
\* no error when nothing matches.
C9_Matching(ns, tags) ==
    {v \in vms : /\ v.ns = ns
                 /\ \A k \in DOMAIN tags : k \in DOMAIN v.labels /\ v.labels[k] = tags[k]}

C9_ListStep ==
    \A w \in DOMAIN workers :
        LET wk == workers[w]
            M == C9_Matching(wk.ns, wk.tagsIn)
        IN  (wk.op = "List" /\ wk.pc = "listVMs" /\ Stepped(w) /\ Answered(w))
            => /\ workers'[w].pc = "done"
               /\ workers'[w].err = NoErr
               /\ ~workers'[w].idsNil
               /\ DOMAIN workers'[w].ids = {ProviderName \o "://" \o v.name : v \in M}
               /\ \A v \in M : workers'[w].ids[ProviderName \o "://" \o v.name] = v.name
               /\ Cardinality(DOMAIN workers'[w].ids) = Cardinality(M)
               /\ vms' = vms

C9_ListExact == [][C9_ListStep]_vars

\* A filtered list returned one of two VMs of the namespace and not the
\* matching VM of another namespace
C9_Witness ==
    \E w \in DOMAIN workers :
        LET wk == workers[w] IN
        /\ wk.op = "List" /\ wk.pc = "done" /\ wk.err = NoErr
        /\ wk.tagsIn # EmptyMap
        /\ Cardinality(DOMAIN wk.ids) = 1
        /\ Cardinality({v \in vms : v.ns = wk.ns}) = 2
        /\ \E v \in vms : v.ns # wk.ns /\ MatchingLabels(v.labels, wk.tagsIn)

\* C10: after a successful CreateMachine(n) and until a DeleteMachine(n),
\* GetMachineStatus(n) returns the provider ID CreateMachine(n) returned and
\* ListMachines (with the tags of the create, or with none) contains n;
\* after a successful DeleteMachine(n) and until a CreateMachine(n),
\* GetMachineStatus(n) reports not-found and ListMachines has no n.  (The
\* lookups and lists are the answered ones.)
C10_LifecycleStep ==
    \A w \in DOMAIN workers :
        LET wk == workers[w] IN
        /\ (wk.op = "Status" /\ wk.pc = "getVM" /\ Stepped(w) /\ Answered(w)) =>
              LET m == <<wk.ns, wk.name>> IN
              /\ created[m].pid # "" =>
                    workers'[w].pid = created[m].pid /\ workers'[w].err = NoErr
              /\ deleted[m] =>
                    workers'[w].pid = "" /\ workers'[w].err = MachineNotFoundError(wk.name)
        /\ (wk.op = "List" /\ wk.pc = "listVMs" /\ Stepped(w) /\ Answered(w)) =>
              \A n \in MachineNames :
                 LET m == <<wk.ns, n>> IN
                 /\ (created[m].pid # "" /\ wk.tagsIn \in {EmptyMap, created[m].tags}) =>
                       /\ created[m].pid \in DOMAIN workers'[w].ids
                       /\ workers'[w].ids[created[m].pid] = n
                 /\ deleted[m] =>
                       \A p \in DOMAIN workers'[w].ids : workers'[w].ids[p] # n

C10_Lifecycle == [][C10_LifecycleStep]_vars

\* GetMachineStatus reported not-found for a machine that was created (its
\* secret is still there) and then deleted
C10_Witness ==
    \E w \in DOMAIN workers :
        LET wk == workers[w] IN
        /\ wk.op = "Status" /\ wk.pc = "done"
        /\ wk.err = MachineNotFoundError(wk.name)
        /\ deleted[<<wk.ns, wk.name>>]
        /\ \E s \in secrets : s.ns = wk.ns /\ s.ownerName = wk.name

\* C11: the provider ID of a non-empty machine name n is "kubevirt://" + n,
\* that of the empty name is empty and distinct names have distinct provider
\* IDs; a successful CreateMachine, GetMachineStatus, ShutDownMachine and
\* DeleteMachine of a present VM of n return this provider ID, and every key
\* of a ListMachines result is this provider ID of its value.
C11_ProviderID ==
    /\ encodeProviderID("") = ""
    /\ \A n \in MachineNames : encodeProviderID(n) = "kubevirt://" \o n
    /\ \A n1, n2 \in MachineNames : encodeProviderID(n1) = encodeProviderID(n2) => n1 = n2
    /\ \A w \in DOMAIN workers :
          LET wk == workers[w] IN
          (wk.pc = "done" /\ wk.err = NoErr) =>
              /\ wk.op \in {"Create", "Status", "ShutDown"} => wk.pid = "kubevirt://" \o wk.name
              /\ (wk.op = "Delete" /\ wk.trace[1].outcome = "ok") =>
                    wk.pid = "kubevirt://" \o wk.name
              /\ wk.op = "List" =>
                    \A k \in DOMAIN wk.ids : k = "kubevirt://" \o wk.ids[k]

\* ListMachines returned the two provider IDs of two VMs
C11_Witness ==
    \E w \in DOMAIN workers :
        LET wk == workers[w] IN
        /\ wk.op = "List" /\ wk.pc = "done" /\ wk.err = NoErr
        /\ DOMAIN wk.ids = {"kubevirt://m1", "kubevirt://m2"}
        /\ wk.ids["kubevirt://m1"] = "m1" /\ wk.ids["kubevirt://m2"] = "m2"

\* C12: no step of a GetMachineStatus or ListMachines call, successful or
\* failed, changes the VMs (their presence, running flags, labels) or the
\* secrets of the control plane, and the only remote calls of these handlers
\* are Get and List.
C12_ReadOnlyStep ==
    \A w \in DOMAIN workers :
        (Stepped(w) /\ workers'[w].op \in {"Status", "List"}) =>
            /\ vms' = vms
            /\ secrets' = secrets
            /\ Verbs(workers'[w]) \subseteq {"Get", "List"}

C12_ReadOnly == [][C12_ReadOnlyStep]_vars

\* A ListMachines call failed while the namespace held a stopped VM and its secret
C12_Witness ==
    \E w \in DOMAIN workers :
        LET wk == workers[w] IN
        /\ wk.op = "List" /\ wk.pc = "done" /\ wk.err # NoErr /\ Len(wk.trace) = 1
        /\ \E v \in vms, s \in secrets :
              v.ns = wk.ns /\ ~v.running /\ s.ns = wk.ns /\ s.ownerUID = v.uid

\* C13: a VM whose running flag is false stays stopped as long as it is
\* present: no step of any handler, in any interleaving of two workers, leaves
\* a running VM under the namespace and name of a stopped one; the name has a
\* running VM again only after the stopped VM was deleted and a new one created.
C13_NoRestartStep ==
    \A v \in vms :
        ~v.running =>
            \A v2 \in vms' :
                (v2.ns = v.ns /\ v2.name = v.name) => (~v2.running /\ v2.uid = v.uid)

C13_NoRestart == [][C13_NoRestartStep]_vars

\* The VM a ShutDownMachine stopped was deleted, and a new VM of the name runs
C13_Witness ==
    \E w \in DOMAIN workers :
        LET wk == workers[w] IN
        /\ wk.op = "ShutDown" /\ wk.pc = "done" /\ wk.err = NoErr
        /\ \E v \in vms : /\ v.ns = wk.ns /\ v.name = wk.name
                          /\ v.running /\ v.uid # wk.vm.uid

\* C14: every Update attempt of ShutDownMachine that reports a conflict
\* leaves the VMs as they are; the attempts number at most the steps of the
\* default backoff; after the last of them ShutDownMachine returns an empty
\* provider ID and an opaque error, not the typed not-found; before it the
\* handler goes on to the next attempt.
C14_RetryStep ==
    \A w \in DOMAIN workers :
        LET wk == workers[w] IN
        (/\ wk.op = "ShutDown" /\ wk.pc = "updateVM" /\ Stepped(w)
         /\ LastCall(workers'[w]).outcome = "conflict")
        => /\ vms' = vms
           /\ workers'[w].attempts = wk.attempts + 1
           /\ workers'[w].attempts <= BackoffSteps
           /\ Len(workers'[w].trace) = 1 + workers'[w].attempts
           /\ workers'[w].attempts < BackoffSteps => workers'[w].pc = "updateVM"
           /\ workers'[w].attempts = BackoffSteps =>
                 /\ workers'[w].pc = "done"
                 /\ workers'[w].pid = ""
                 /\ workers'[w].err.kind = "opaque"
                 /\ ~IsMachineNotFoundError(workers'[w].err)

C14_BoundedRetry == [][C14_RetryStep]_vars

\* ShutDownMachine gave up after four conflicts; the VM is still running
C14_Witness ==
    \E w \in DOMAIN workers :
        LET wk == workers[w] IN
        /\ wk.op = "ShutDown" /\ wk.pc = "done" /\ wk.attempts = 4
        /\ \A i \in 2..Len(wk.trace) : wk.trace[i].outcome = "conflict"
        /\ wk.err.kind = "opaque" /\ wk.pid = ""
        /\ \E v \in vms : v.ns = wk.ns /\ v.name = wk.name /\ v.running

\* C15: the machine server answers a request whose engine call returned a
\* MachineNotFoundError with the NotFound code, and one whose engine call
\* returned any other error with the Internal code and the failure message
\* followed by the engine's error; a GetMachineStatus request for a machine
\* name without a VM, when the lookup is answered, gets NotFound.
C15_Mapped(wk) ==
    (wk.pc = "done" /\ wk.op # "ShutDown") =>
        /\ wk.err = NoErr => wk.resp.code = "OK"
        /\ wk.err.kind = "MachineNotFound" => wk.resp.code = "NotFound"
        /\ wk.err.kind = "opaque" =>
              /\ wk.resp.code = "Internal"
              /\ wk.resp.message =
                    FailureMessage(wk.op, wk.name) \o ": " \o wk.err.msg \o ": " \o wk.err.cause

C15_StatusStep ==
    \A w \in DOMAIN workers :
        LET wk == workers[w] IN
        /\ C15_Mapped(workers'[w])
        /\ (/\ wk.op = "Status" /\ wk.pc = "getVM" /\ Stepped(w) /\ Answered(w)
            /\ Absent(wk.ns, wk.name))
           => workers'[w].resp.code = "NotFound"

C15_ErrorTaxonomy == [][C15_StatusStep]_vars

\* A GetMachineStatus request for a deleted machine was answered NotFound
C15_Witness ==
    \E w \in DOMAIN workers :
        LET wk == workers[w] IN
        /\ wk.op = "Status" /\ wk.pc = "done" /\ wk.resp.code = "NotFound"
        /\ Absent(wk.ns, wk.name)
        /\ deleted[<<wk.ns, wk.name>>]

\* C16: a handler that returned after a failed resolution of the client (or
\* of the server version) or after a failed remote call returned an error,
\* an empty provider ID and, for ListMachines, a nil map; except when the
\* failure was a not-found of the lookup or of the Delete call inside
\* DeleteMachine, or an Update conflict inside ShutDownMachine that a later
\* attempt overcame.
C16_Absorbed(wk, i) ==
    \/ wk.op = "Delete" /\ wk.trace[i].outcome = "notFound"
    \/ /\ wk.op = "ShutDown" /\ wk.trace[i].verb = "Update" /\ wk.trace[i].outcome = "conflict"
       /\ \E j \in (i + 1)..Len(wk.trace) : wk.trace[j].outcome = "ok"

C16_Failed(wk) ==
    \/ Len(wk.trace) = 0
    \/ \E i \in 1..Len(wk.trace) : wk.trace[i].outcome # "ok" /\ ~C16_Absorbed(wk, i)

C16_NoSwallowedError ==
    \A w \in DOMAIN workers :
        LET wk == workers[w] IN
        (wk.pc = "done" /\ C16_Failed(wk)) =>
            /\ wk.err # NoErr
            /\ wk.pid = ""
            /\ wk.idsNil

\* CreateMachine returned an error after the secret's creation failed; the VM is there
C16_Witness ==
    \E w \in DOMAIN workers :
        LET wk == workers[w] IN
        /\ wk.op = "Create" /\ wk.pc = "done" /\ wk.err # NoErr /\ wk.pid = ""
        /\ Len(wk.trace) = 2 /\ wk.trace[2].outcome = "transport"
        /\ \E v \in vms : v.ns = wk.ns /\ v.name = wk.name

\* C17: with two workers on two machine names of one namespace, a step of a
\* call on a name leaves the VMs of other names and the secrets of other
\* names' VMs as they are; its remote call names an object of its own machine
\* name, and the answer of the control plane is the one it gives when it holds
\* the objects of that name only.
C17_Own(store, n) == {v \in store : v.name = n}

C17_Answer(wk) ==
    LET own == C17_Own(vms, wk.name) IN
    IF wk.pc = "getVM" THEN ClientGet(own, wk.ns, wk.name, FALSE).outcome
    ELSE IF wk.pc = "createVM" THEN ClientCreateOutcome(own, wk.vm, FALSE)
    ELSE IF wk.pc = "deleteVM" THEN ClientDeleteOutcome(own, wk.vm, FALSE)
    ELSE IF wk.pc = "updateVM" THEN ClientUpdateOutcome(own, wk.vm, FALSE)
    ELSE IF \E s \in secrets : s.ownerName = wk.name /\ s.ns = wk.ns /\ s.name = wk.secretName
    THEN "alreadyExists" ELSE "ok"

C17_IndependentStep ==
    \A w \in DOMAIN workers :
        LET wk == workers[w]
            n == IF wk.pc = "idle" THEN workers'[w].name ELSE wk.name
        IN  Stepped(w) =>
            /\ {v \in vms' : v.name # n} = {v \in vms : v.name # n}
            /\ {s \in secrets' : s.ownerName # n} = {s \in secrets : s.ownerName # n}
            /\ wk.pc \notin {"idle", "done"} =>
                  /\ LastCall(workers'[w]).vm.name \in {n, ""}
                  /\ LastCall(workers'[w]).secret.ownerName \in {n, ""}
                  /\ Answered(w) => LastCall(workers'[w]).outcome = C17_Answer(wk)

C17_Independent == [][C17_IndependentStep]_vars

\* One worker stopped the VM of its name while the other created the VM of its name
C17_Witness ==
    /\ workers["w1"].op = "ShutDown" /\ workers["w1"].pc = "done" /\ workers["w1"].err = NoErr
    /\ workers["w2"].op = "Create" /\ workers["w2"].pc = "done" /\ workers["w2"].err = NoErr
    /\ workers["w1"].name # workers["w2"].name
    /\ \E v1, v2 \in vms :
          /\ v1.ns = v2.ns
          /\ v1.name = workers["w1"].name /\ ~v1.running
          /\ v2.name = workers["w2"].name /\ v2.running
    /\ \E s \in secrets : s.ownerName = workers["w2"].name

\* C18: CreateMachine leaves the tag map of the caller's provider spec as it
\* was passed, so a list with the spec after the call selects the VMs a list
\* with the original tags selects.
C18_SpecUnchanged ==
    \A w \in DOMAIN workers :
        LET wk == workers[w] IN
        wk.op = "Create" =>
            /\ wk.tags = wk.tagsIn
            /\ listVMs(vms, wk.ns, wk.tags) = listVMs(vms, wk.ns, wk.tagsIn)

\* The worker's CreateMachine built the VM object
Built(wk) == wk.op = "Create" /\ wk.vm.name # ""

NoDefault(networkSpecs) == \A i \in 1..Len(networkSpecs) : ~networkSpecs[i].default

OneDefault(networkSpecs) ==
    Cardinality({i \in 1..Len(networkSpecs) : networkSpecs[i].default}) = 1

IsPodPair(vm, i) ==
    /\ vm.interfaces[i].name = "default"
    /\ vm.networks[i].name = "default"
    /\ vm.networks[i].source = "pod"

C20_NetworkData ==
    \A w \in DOMAIN workers :
        LET wk == workers[w] IN
        Built(wk) =>
            /\ Len(wk.networksIn) = 0 =>
                  /\ wk.vm.interfaces = <<>>
                  /\ wk.vm.networks = <<>>
                  /\ wk.vm.networkData = ""
            /\ Len(wk.networksIn) >= 1 =>
                  wk.vm.networkData =
                     "version: 2\nethernets:\n  id0:\n    match:\n      name: \"e*\"\n    dhcp4: true\n"
            /\ Len(wk.trace) >= 1 => wk.trace[1].vm.networkData = wk.vm.networkData
            /\ (Len(wk.trace) >= 1 /\ wk.trace[1].outcome = "ok") =>
                  \A v \in vms : (v.ns = wk.ns /\ v.name = wk.name) =>
                      v.networkData = wk.vm.networkData

\* A VM was created from a spec with one default network: it carries the DHCP fragment
C20_Witness ==
    \E w \in DOMAIN workers :
        LET wk == workers[w] IN
        /\ Built(wk) /\ wk.pc = "done" /\ wk.err = NoErr
        /\ Len(wk.networksIn) = 1 /\ wk.networksIn[1].default
        /\ \E v \in vms : v.ns = wk.ns /\ v.name = wk.name /\ v.networkData # ""


\* C21: buildNetworks names the descriptors by their position: the i-th
\* descriptor (counted from 0) yields an interface and a network both named
\* net<i>, at the i-th place after the pod network pair "default" when that
\* pair was prepended and at the i-th place otherwise; the interface binds as
\* a bridge, the network is a multus network carrying the descriptor's name
\* and default flag, and no two interfaces and no two networks share a name.
C21_NetNames ==
    \A w \in DOMAIN workers :
        LET wk == workers[w]
            N == Len(wk.networksIn)
            pod == IF N >= 1 /\ NoDefault(wk.networksIn) THEN 1 ELSE 0
        IN  Built(wk) =>
            /\ Len(wk.vm.interfaces) = pod + N
            /\ Len(wk.vm.networks) = pod + N
            /\ pod = 1 => IsPodPair(wk.vm, 1)
            /\ \A i \in 0..(N - 1) :
                  /\ wk.vm.interfaces[pod + i + 1] =
                        [name |-> "net" \o ToString(i), binding |-> "bridge"]
                  /\ wk.vm.networks[pod + i + 1] =
                        [name |-> "net" \o ToString(i), source |-> "multus",
                         networkName |-> wk.networksIn[i + 1].name,
                         default |-> wk.networksIn[i + 1].default]
            /\ \A i, j \in 1..(pod + N) :
                  i # j => /\ wk.vm.interfaces[i].name # wk.vm.interfaces[j].name
                           /\ wk.vm.networks[i].name # wk.vm.networks[j].name

\* A VM was created from one descriptor that is not the default: its
\* interfaces are named "default" and "net0"
C21_Witness ==
    \E w \in DOMAIN workers :
        LET wk == workers[w] IN
        /\ Built(wk) /\ wk.pc = "done" /\ wk.err = NoErr
        /\ Len(wk.networksIn) = 1 /\ ~wk.networksIn[1].default
        /\ \E v \in vms : /\ v.ns = wk.ns /\ v.name = wk.name
                          /\ Len(v.interfaces) = 2
                          /\ v.interfaces[1].name = "default"
                          /\ v.interfaces[2].name = "net0"


\* The release the worker's server version stands for is below 1.17
Below117(wk) ==
    LET release == CHOOSE v \in ServerVersions \cup DefaultVersions : v.text = wk.k8sVersion
    IN  release.major < 1 \/ (release.major = 1 /\ release.minor < 17)

\* C22: buildAffinity yields no affinity for an empty region; for any other
\* region it yields exactly one required node selector term, whose first
\* expression is DoesNotExist on the region label for the region "default" and
\* In [region] otherwise, followed, only when a zone is given, by DoesNotExist
\* on the zone label for the zone "default" and In [zone] otherwise; the label
\* keys are failure-domain.beta.kubernetes.io/{region,zone} for every server
\* version below 1.17 and topology.kubernetes.io/{region,zone} from 1.17 on.
C22_Affinity ==
    \A w \in DOMAIN workers :
        LET wk == workers[w]
            region == wk.providerSpec.region
            zone == wk.providerSpec.zone
            regionKey == IF Below117(wk) THEN "failure-domain.beta.kubernetes.io/region"
                         ELSE "topology.kubernetes.io/region"
            zoneKey == IF Below117(wk) THEN "failure-domain.beta.kubernetes.io/zone"
                       ELSE "topology.kubernetes.io/zone"
            terms == wk.vm.affinity
        IN  Built(wk) =>
            /\ region = "" => terms = <<>>
            /\ region # "" =>
                  /\ Len(terms) = 1
                  /\ Len(terms[1].matchExpressions) = (IF zone = "" THEN 1 ELSE 2)
                  /\ terms[1].matchExpressions[1] =
                        (IF region = "default"
                         THEN [key |-> regionKey, operator |-> "DoesNotExist", values |-> <<>>]
                         ELSE [key |-> regionKey, operator |-> "In", values |-> <<region>>])
                  /\ zone # "" =>
                        terms[1].matchExpressions[2] =
                           (IF zone = "default"
                            THEN [key |-> zoneKey, operator |-> "DoesNotExist", values |-> <<>>]
                            ELSE [key |-> zoneKey, operator |-> "In", values |-> <<zone>>])
            /\ (Len(wk.trace) >= 1 /\ wk.trace[1].outcome = "ok") =>
                  \A v \in vms : (v.ns = wk.ns /\ v.name = wk.name) => v.affinity = terms

\* A VM was created on a 1.17.0 control plane for the region "default" and the
\* zone "z1": one term, DoesNotExist on the topology region key and In ["z1"]
\* on the topology zone key
C22_Witness ==
    \E w \in DOMAIN workers :
        LET wk == workers[w] IN
        /\ Built(wk) /\ wk.pc = "done" /\ wk.err = NoErr
        /\ wk.k8sVersion = <<"v", "1", ".", "1", "7", ".", "0">>
        /\ wk.providerSpec.region = "default" /\ wk.providerSpec.zone = "z1"
        /\ \E v \in vms :
              /\ v.ns = wk.ns /\ v.name = wk.name
              /\ v.affinity =
                    <<[matchExpressions |->
                         <<[key |-> "topology.kubernetes.io/region",
                            operator |-> "DoesNotExist", values |-> <<>>],
                           [key |-> "topology.kubernetes.io/zone",
                            operator |-> "In", values |-> <<"z1">>]>>]>>

\* The text has the marker among its tokens
HasMarker(text) == \E i \in 1..Len(text) : text[i] = "ssh_authorized_keys:"

\* The key without the whitespace before its first and after its last other token
Trimmed(key) ==
    LET solid == {i \in 1..Len(key) : key[i] \notin {" ", "\t", "\n"}}
    IN  IF solid = {} THEN <<>>
        ELSE SubSeq(key, CHOOSE i \in solid : \A j \in solid : i <= j,
                         CHOOSE i \in solid : \A j \in solid : i >= j)

\* The lines "- <trimmed key>" of the first n keys, in order
RECURSIVE KeyBlock(_, _)
KeyBlock(keys, n) ==
    IF n = 0 THEN <<>>
    ELSE KeyBlock(keys, n - 1) \o <<"- ">> \o Trimmed(keys[n]) \o <<"\n">>

\* CreateMachine got past the client and the server version
Merging(wk) == wk.op = "Create" /\ wk.k8sVersion # <<>>

\* C23: addUserSSHKeysToUserData returns the user data unchanged and no error
\* when there are no keys; with keys it fails whenever the user data contains
\* the marker ssh_authorized_keys: and otherwise returns the user data
\* followed by the marker's block with each trimmed key in order; applied with
\* any non-empty keys to such a result it fails.
C23_UserData ==
    \A w \in DOMAIN workers :
        LET wk == workers[w]
            keys == wk.providerSpec.sshKeys
        IN  Merging(wk) =>
            /\ keys = <<>> => Built(wk) /\ wk.userData = wk.userDataIn
            /\ (keys # <<>> /\ HasMarker(wk.userDataIn)) =>
                  /\ ~Built(wk) /\ wk.pc = "done" /\ wk.userData = <<>>
                  /\ wk.err = Errorf("failed to add ssh keys to cloud-init",
                                     "userData already contains key ssh_authorized_keys")
            /\ (keys # <<>> /\ ~HasMarker(wk.userDataIn)) =>
                  /\ Built(wk)
                  /\ wk.userData = wk.userDataIn \o <<"\n", "ssh_authorized_keys:", "\n">>
                                   \o KeyBlock(keys, Len(keys))
                  /\ \A again \in SSHKeyLists \ {<<>>} :
                        addUserSSHKeysToUserData(wk.userData, again).err # ""
            /\ \A s \in secrets : (s.ns = wk.ns /\ s.name = wk.secretName /\ wk.pc = "done"
                                   /\ wk.err = NoErr) => s.userData = wk.userData

\* A machine was created with two keys, the second one with whitespace around
\* it: the secret holds the user data followed by the block of the two keys
C23_Witness ==
    \E w \in DOMAIN workers :
        LET wk == workers[w] IN
        /\ Built(wk) /\ wk.pc = "done" /\ wk.err = NoErr
        /\ wk.userDataIn = <<"#cloud-config", "\n", "user: test">>
        /\ wk.providerSpec.sshKeys = <<<<"ssh-rsa B">>, <<" ", "ssh-rsa C", "\n">>>>
        /\ \E s \in secrets :
              /\ s.name = wk.secretName
              /\ s.userData = <<"#cloud-config", "\n", "user: test", "\n",
                                "ssh_authorized_keys:", "\n", "- ", "ssh-rsa B", "\n",
                                "- ", "ssh-rsa C", "\n">>


\* The names of a sequence of disks, volumes or data volume templates
Names(items) == [i \in 1..Len(items) |-> items[i].name]

\* C24: for every spec the validation accepts, buildVolumes yields the disks
\* rootdisk, cloudinitdisk and disk<i> for the additional volume i, volumes of
\* the same names at the same places, a cloud-init volume that references the
\* generated user-data secret name, the root template (named as the machine,
\* in the VM's namespace, with the spec's root volume) and one template per
\* additional volume with a fresh data volume, and for each additional volume
\* with a volume source a volume wrapping that source and no template.
C24_Volumes ==
    \A w \in DOMAIN workers :
        LET wk == workers[w]
            additional == wk.providerSpec.additionalVolumes
            n == Len(additional)
            vm == wk.vm
        IN  Built(wk) =>
            /\ Names(vm.disks) =
                  <<"rootdisk", "cloudinitdisk">> \o [i \in 1..n |-> "disk" \o ToString(i - 1)]
            /\ Names(vm.volumes) = Names(vm.disks)
            /\ vm.volumes[2].source = "cloudInitNoCloud"
            /\ vm.volumes[2].userDataSecretRef = wk.secretName
            /\ vm.dataVolumeTemplates[1] =
                  [name |-> wk.name, ns |-> vm.ns, spec |-> wk.providerSpec.rootVolume]
            /\ Len(vm.dataVolumeTemplates) =
                  1 + Cardinality({i \in 1..n : additional[i].dataVolume # <<>>})
            /\ \A i \in 1..n :
                  /\ additional[i].dataVolume # <<>> =>
                        /\ vm.volumes[i + 2].source = "dataVolume"
                        /\ \E k \in 2..Len(vm.dataVolumeTemplates) :
                              /\ vm.dataVolumeTemplates[k].name = vm.volumes[i + 2].ref
                              /\ vm.dataVolumeTemplates[k].ns = vm.ns
                              /\ vm.dataVolumeTemplates[k].spec = additional[i].dataVolume[1]
                  /\ additional[i].volumeSource # <<>> =>
                        /\ vm.volumes[i + 2].source = additional[i].volumeSource[1].kind
                        /\ vm.volumes[i + 2].ref = additional[i].volumeSource[1].ref
                        /\ \A k \in 1..Len(vm.dataVolumeTemplates) :
                              vm.dataVolumeTemplates[k].name # wk.name \o "-" \o ToString(i - 1)

\* C25: no two data volume templates of VMs of one namespace share a name,
\* neither two templates of one VM nor templates of two VMs with different
\* machine names.
C25_TemplateNamesUnique ==
    \A v1, v2 \in vms :
        /\ \A i, j \in 1..Len(v1.dataVolumeTemplates) :
              i # j => v1.dataVolumeTemplates[i].name # v1.dataVolumeTemplates[j].name
        /\ (v1.ns = v2.ns /\ v1.name # v2.name) =>
              \A i \in 1..Len(v1.dataVolumeTemplates), j \in 1..Len(v2.dataVolumeTemplates) :
                  v1.dataVolumeTemplates[i].name # v2.dataVolumeTemplates[j].name


\* A CreateMachine call that returned before its first remote write
FailedEarly(wk) == wk.op = "Create" /\ wk.pc = "done" /\ wk.trace = <<>>

C26_CallStep ==
    \A w \in DOMAIN workers :
        LET wk == workers'[w] IN
        (workers[w].pc = "idle" /\ wk.op = "Create") =>
            /\ vms' = vms /\ secrets' = secrets /\ dataVolumes' = dataVolumes
            /\ wk.trace = <<>>
            /\ wk.pc \in {"done", "createVM"}
            /\ ((wk.providerSpec.sshKeys # <<>> /\ HasMarker(wk.userDataIn))
                \/ wk.ns = "" \/ wk.k8sVersion = <<>>) => wk.pc = "done"
            /\ wk.pc = "done" =>
                  /\ wk.err # NoErr /\ wk.pid = "" /\ wk.vm = NoVM
                  /\ wk.err.msg \in {"failed to create client", "failed to get server version",
                                     "failed to add ssh keys to cloud-init"}

\* C26: when the client cannot be resolved, the server version cannot be
\* looked up or the SSH keys cannot be merged into the user data, CreateMachine
\* returns an error and an empty provider ID, has issued no Create call, and
\* the VMs, secrets and data volumes of the control plane are as before.
C26_NoWriteOnEarlyFailure == [][C26_CallStep]_vars

\* CreateMachine returned the failure of the key merge; no remote call was made
C26_Witness ==
    \E w \in DOMAIN workers :
        LET wk == workers[w] IN
        /\ FailedEarly(wk)
        /\ wk.err.msg = "failed to add ssh keys to cloud-init" /\ wk.pid = ""
        /\ wk.providerSpec.sshKeys # <<>> /\ HasMarker(wk.userDataIn)
        /\ vms = ForeignVMs /\ secrets = {}

C27_SecretStep ==
    \A w \in DOMAIN workers :
        LET wk == workers[w] IN
        (/\ wk.op = "Create" /\ wk.pc = "createSecret" /\ Stepped(w)
         /\ LastCall(workers'[w]).outcome # "ok")
        => /\ workers'[w].pc = "done"
           /\ workers'[w].err # NoErr /\ workers'[w].pid = ""
           /\ \E v \in vms' : /\ v.ns = wk.ns /\ v.name = wk.name /\ v.uid = wk.vm.uid
                              /\ v.running
                              /\ v.userDataSecretRef = wk.secretName
           /\ ~\E s \in secrets' : s.ns = wk.ns /\ s.name = wk.secretName
           /\ ClientCreateOutcome(vms', wk.vm, FALSE) = "alreadyExists"

\* C27: when the VM was created and the creation of the user-data secret then
\* fails, CreateMachine returns an error and an empty provider ID, the VM it
\* created is still there and running, the secret the VM references does not
\* exist, and a further create of the name is rejected for the existing VM.
C27_NoRollback == [][C27_SecretStep]_vars

\* The CreateMachine calls that returned success
Succeeded == {w \in DOMAIN workers : workers[w].op = "Create" /\ workers[w].pc = "done"
                                     /\ workers[w].err = NoErr}

\* C28: of two concurrent CreateMachine calls for one machine name at most
\* one returns success; once a create of the VM was answered exactly one VM
\* of the name exists; the call whose VM was rejected returns an error and an
\* empty provider ID and has issued no create of a secret.
C28_OneCreateWins ==
    /\ Cardinality(Succeeded) <= 1
    /\ \A w \in DOMAIN workers :
          LET wk == workers[w] IN
          (wk.op = "Create" /\ Len(wk.trace) >= 1) =>
              /\ wk.trace[1].outcome # "transport" =>
                    Cardinality(Lookup(vms, wk.ns, wk.name)) = 1
              /\ wk.trace[1].outcome = "alreadyExists" =>
                    /\ wk.pc = "done" /\ wk.err # NoErr /\ wk.pid = ""
                    /\ Verbs(wk) = {"CreateVM"}
    /\ Cardinality(secrets) <= 1
    /\ \A s \in secrets : \E v \in vms : v.uid = s.ownerUID /\ v.name = s.ownerName

\* Both calls returned: one created the VM and its secret, the other was
\* rejected after the first one's VM was stored and before its secret was
C28_Witness ==
    /\ Cardinality(Succeeded) = 1
    /\ \E w \in DOMAIN workers \ Succeeded :
          LET wk == workers[w] IN
          /\ wk.op = "Create" /\ wk.pc = "done" /\ wk.err # NoErr
          /\ Len(wk.trace) = 1 /\ wk.trace[1].outcome = "alreadyExists"
    /\ Cardinality({v \in vms : v.ns \in CredentialNamespaces}) = 1
    /\ Cardinality(secrets) = 1


C29_ShutDownStep ==
    \A w \in DOMAIN workers :
        LET wk == workers[w] IN
        (wk.op = "ShutDown" /\ Stepped(w) /\ wk.pc # "done") =>
            /\ Absent(wk.ns, wk.name) => Lookup(vms', wk.ns, wk.name) = {}
            /\ (wk.pc = "updateVM" /\ Absent(wk.ns, wk.name) /\ Answered(w)) =>
                  /\ LastCall(workers'[w]).outcome = "notFound"
                  /\ workers'[w].pc = "done"
                  /\ workers'[w].err # NoErr /\ workers'[w].pid = ""
                  /\ ~IsMachineNotFoundError(workers'[w].err)
                  /\ vms' = vms

\* C29: no step of ShutDownMachine makes an absent machine name present; when
\* the VM was deleted between ShutDownMachine's lookup and its Update, the
\* Update is answered not-found and is not attempted again, ShutDownMachine
\* returns a non-nil error that is not the typed MachineNotFoundError, and
\* the machine stays absent.
C29_NoResurrection == [][C29_ShutDownStep]_vars

\* ShutDownMachine found the VM, DeleteMachine of the other worker removed it,
\* and the Update failed on the missing VM
C29_Witness ==
    \E w, d \in DOMAIN workers :
        LET wk == workers[w] IN
        /\ wk.op = "ShutDown" /\ wk.pc = "done" /\ wk.err # NoErr
        /\ Len(wk.trace) = 2 /\ wk.trace[1].outcome = "ok"
        /\ wk.trace[2].verb = "Update" /\ wk.trace[2].outcome = "notFound"
        /\ workers[d].op = "Delete" /\ workers[d].pc = "done" /\ workers[d].err = NoErr
        /\ workers[d].name = wk.name
        /\ Absent(wk.ns, wk.name)

C30_ManagerStep ==
    \A w \in DOMAIN workers :
        LET wk == workers[w]
            after == workers'[w]
            present == \E v \in dataVolumes : v.ns = wk.ns /\ v.name = wk.name
        IN  (wk.pc \in {"getDV", "deleteDV"} /\ Stepped(w) /\ Answered(w)) =>
            /\ (wk.op = "GetVolume" /\ ~present) =>
                  /\ after.pc = "done"
                  /\ after.err.kind = "DataVolumeNotFound"
                  /\ after.err.name = wk.name /\ after.err.namespace = wk.ns
                  /\ dataVolumes' = dataVolumes
            /\ (wk.op = "GetVolume" /\ present) =>
                  /\ after.pc = "done" /\ after.err = NoErr
                  /\ after.dv.name = wk.name /\ after.dv.ns = wk.ns
            /\ (wk.op = "DeleteVolume" /\ wk.pc = "getDV" /\ ~present) =>
                  /\ after.pc = "done" /\ after.err = NoErr
                  /\ Verbs(after) = {"GetVolume"}
                  /\ dataVolumes' = dataVolumes
            /\ (wk.op = "DeleteVolume" /\ wk.pc = "getDV" /\ present) =>
                  /\ after.pc = "deleteDV" /\ dataVolumes' = dataVolumes
            /\ (wk.op = "DeleteVolume" /\ wk.pc = "deleteDV" /\ present) =>
                  /\ after.pc = "done" /\ after.err = NoErr
                  /\ dataVolumes' = {v \in dataVolumes : ~(v.ns = wk.ns /\ v.name = wk.name)}

\* C30: GetVolume of a name without a data volume in the namespace returns
\* the typed data-volume-not-found error with that name and namespace;
\* DeleteVolume of an absent data volume returns nil after its lookup, without
\* a Delete call, and DeleteVolume of a present one removes it and returns nil.
C30_VolumeNotFound == [][C30_ManagerStep]_vars

\* Beside an existing data volume, DeleteVolume of a name without a data
\* volume returned nil after the lookup alone
C30_Witness ==
    \E w \in DOMAIN workers :
        LET wk == workers[w] IN
        /\ wk.op = "DeleteVolume" /\ wk.pc = "done" /\ wk.err = NoErr
        /\ Len(wk.trace) = 1 /\ wk.trace[1].outcome = "notFound"
        /\ dataVolumes # {}
        /\ ~\E v \in dataVolumes : v.ns = wk.ns /\ v.name = wk.name

====
